---- MODULE Spec2Model ----
(***************************************************************************)
(* TrenerAI chat command core: confirmation gate, session store of pending *)
(* actions, command executor, entity storage and the chat orchestrator     *)
(* (app/commands/*.py, app/services/chat_service.py, app/storage).         *)
(*                                                                         *)
(* Text is modelled as TLA+ strings read character by character            *)
(* (Len, SubSeq, \o).  The module is written in ASCII; the Polish letters  *)
(* of the source are written with these stand-in characters:               *)
(*   a-ogonek @   c-acute ^   e-ogonek #   l-stroke |   n-acute ~          *)
(*   o-acute  &   s-acute $   z-acute  <   z-dot    >                      *)
(* and their capitals                                                      *)
(*   A-ogonek {   C-acute %   E-ogonek =   L-stroke !   N-acute +          *)
(*   O-acute  }   S-acute ;   Z-acute  [   Z-dot    ]                      *)
(* Pictographs in the reply texts (check mark, warning sign) are left out. *)
(***************************************************************************)
EXTENDS Integers, Sequences, FiniteSets, TLC

(***************************************************************************)
(* Characters and strings (Python str methods used by the source)          *)
(***************************************************************************)
None == "None"

Absent == "Absent"

AsciiUpper == "ABCDEFGHIJKLMNOPQRSTUVWXYZ"

AsciiLower == "abcdefghijklmnopqrstuvwxyz"

PolishUpper == "{%=!+};[]"

PolishLower == "@^#|~&$<>"

Digits == "0123456789"

Whitespace == " \t\n"

CharAt(s, i) == SubSeq(s, i, i)

CharIn(c, s) == \E i \in 1..Len(s) : CharAt(s, i) = c

IndexIn(c, s) == CHOOSE i \in 1..Len(s) : CharAt(s, i) = c

\* str.lower() on one character
LowerChar(c) ==
    IF CharIn(c, AsciiUpper) THEN CharAt(AsciiLower, IndexIn(c, AsciiUpper))
    ELSE IF CharIn(c, PolishUpper) THEN CharAt(PolishLower, IndexIn(c, PolishUpper))
    ELSE c

RECURSIVE Lower(_)
\* str.lower(), character by character (the string is split in halves)
Lower(s) ==
    IF Len(s) = 0 THEN s
    ELSE IF Len(s) = 1 THEN LowerChar(s)
    ELSE LET h == Len(s) \div 2
         IN  Lower(SubSeq(s, 1, h)) \o Lower(SubSeq(s, h + 1, Len(s)))

\* str.strip(): from the first to the last non-whitespace character
Strip(s) ==
    LET keep == {i \in 1..Len(s) : ~CharIn(CharAt(s, i), Whitespace)}
    IN  IF keep = {} THEN ""
        ELSE SubSeq(s, CHOOSE i \in keep : \A j \in keep : i <= j,
                       CHOOSE i \in keep : \A j \in keep : i >= j)

RECURSIVE Replace(_, _, _)
\* str.replace(old, new) for a one-character old
Replace(s, old, new) ==
    IF Len(s) = 0 THEN s
    ELSE IF Len(s) = 1 THEN (IF s = old THEN new ELSE s)
    ELSE LET h == Len(s) \div 2
         IN  Replace(SubSeq(s, 1, h), old, new) \o Replace(SubSeq(s, h + 1, Len(s)), old, new)

(***************************************************************************)
(* Confirmation gate: app/commands/session.py is_confirmation              *)
(***************************************************************************)
AffirmWords ==
    {"tak", "yes", "ok", "potwierd<", "potwierdzam", "dawaj", "jasne", "sure", "y"}

DenyWords ==
    {"nie", "no", "anuluj", "cancel", "stop", "rezygnuj#", "n"}

\* is_confirmation that looks for a vocabulary word anywhere in the message
is_confirmation_contains(message) ==
    LET msg == Strip(Lower(message))
        has(w) == \E i \in 1..(Len(msg) - Len(w) + 1) : SubSeq(msg, i, i + Len(w) - 1) = w
    IN  IF \E w \in AffirmWords : has(w) THEN "True"
        ELSE IF \E w \in DenyWords : has(w) THEN "False"
        ELSE None

\* "True" (confirm), "False" (cancel), "None" (not a confirmation)
is_confirmation(message) ==
    LET msg == Strip(Lower(message))
    IN  IF msg \in AffirmWords THEN "True"
        ELSE IF msg \in DenyWords THEN "False"
        ELSE None

(***************************************************************************)
(* Regular expressions (Python re): a backtracking matcher over a pattern  *)
(* tree.  Run matches a sequence of patterns k, the continuation, from     *)
(* position i and returns the match Python's backtracking finds first:     *)
(* [ok |-> TRUE, e |-> next position, g |-> group 1 as <<first, last+1>>   *)
(* or <<>>], or [ok |-> FALSE].                                            *)
(***************************************************************************)
Letters == AsciiUpper \o AsciiLower \o PolishUpper \o PolishLower

UpperLetters == AsciiUpper \o PolishUpper

LowerLetters == AsciiLower \o PolishLower

WordChars == Letters \o Digits \o "_"

Lit(str) == [t |-> "lit", s |-> str]

Cls(chars) == [t |-> "cls", cs |-> chars]

Dot == [t |-> "dot"]

Cat(rs) == [t |-> "cat", rs |-> rs]

Alt(rs) == [t |-> "alt", rs |-> rs]

\* r+ and r* of a one-character pattern r: min repetitions, greedy or lazy
Rep(r, min, greedy) == [t |-> "rep", r |-> r, min |-> min, greedy |-> greedy]

Grp(r) == [t |-> "grp", r |-> r]

GrpEnd(start) == [t |-> "gend", start |-> start]

Bol == [t |-> "bol"]

Eol == [t |-> "eol"]

WordB == [t |-> "wb"]

Star(r) == Rep(r, 0, TRUE)

Plus(r) == Rep(r, 1, TRUE)

PlusLazy(r) == Rep(r, 1, FALSE)

\* r? : r, or else nothing
Opt(r) == Alt(<<r, Cat(<<>>)>>)

\* (?:w1|w2|...) over literal words
Words(ws) == Alt([k \in 1..Len(ws) |-> Lit(ws[k])])

\* a literal prefix followed by \w*
Stem(str) == Cat(<<Lit(str), Star(Cls(WordChars))>>)

\* one character against a class, under re.IGNORECASE when ic
ClsHas(cs, c, ic) ==
    IF ic
    THEN \E i \in 1..Len(cs) : LowerChar(CharAt(cs, i)) = LowerChar(c)
    ELSE CharIn(c, cs)

IsWordAt(s, i) == i >= 1 /\ i <= Len(s) /\ CharIn(CharAt(s, i), WordChars)

\* one character at position i against a one-character pattern
OneChar(r, s, i, ic) ==
    /\ i <= Len(s)
    /\ IF r.t = "cls" THEN ClsHas(r.cs, CharAt(s, i), ic) ELSE CharAt(s, i) # "\n"

\* the literal str at position i
LitAt(str, s, i, ic) ==
    /\ i + Len(str) - 1 <= Len(s)
    /\ IF ic THEN Lower(SubSeq(s, i, i + Len(str) - 1)) = Lower(str)
             ELSE SubSeq(s, i, i + Len(str) - 1) = str

\* the length of the run of characters from i on that match r
RunLen(r, s, i, ic) ==
    LET stops == {k \in i..(Len(s) + 1) : ~OneChar(r, s, k, ic)}
    IN  (CHOOSE k \in stops : \A j \in stops : k <= j) - i

\* a zero-width assertion at position i
Holds(r, s, i) ==
    CASE r.t = "bol" -> i = 1
      [] r.t = "eol" -> i = Len(s) + 1 \/ (i = Len(s) /\ CharAt(s, i) = "\n")
      [] r.t = "wb" -> IsWordAt(s, i - 1) # IsWordAt(s, i)

Failed == [ok |-> FALSE]

Least(S) == CHOOSE x \in S : \A y \in S : x <= y

Greatest(S) == CHOOSE x \in S : \A y \in S : x >= y

\* the end positions lo..hi of a repetition, still to be tried
Try(lo, hi, greedy) == [t |-> "try", lo |-> lo, hi |-> hi, greedy |-> greedy]

\* the attempt, or the other one if it did not match
OrElse(attempt, other) == IF attempt.ok THEN attempt ELSE other

RECURSIVE Run(_, _, _, _, _)
Run(k, s, i, g, ic) ==
    IF k = <<>> THEN [ok |-> TRUE, e |-> i, g |-> g]
    ELSE LET r == Head(k)
             rest == Tail(k)
         IN  CASE r.t = "lit" ->
                    IF LitAt(r.s, s, i, ic) THEN Run(rest, s, i + Len(r.s), g, ic) ELSE Failed
               [] r.t \in {"cls", "dot"} ->
                    IF OneChar(r, s, i, ic) THEN Run(rest, s, i + 1, g, ic) ELSE Failed
               [] r.t \in {"bol", "eol", "wb"} ->
                    IF Holds(r, s, i) THEN Run(rest, s, i, g, ic) ELSE Failed
               [] r.t = "cat" -> Run(r.rs \o rest, s, i, g, ic)
               [] r.t = "grp" -> Run(<<r.r, GrpEnd(i)>> \o rest, s, i, g, ic)
               [] r.t = "gend" -> Run(rest, s, i, <<r.start, i>>, ic)
               [] r.t = "alt" ->
                    \* the first alternative after which the rest matches
                    IF r.rs = <<>> THEN Failed
                    ELSE OrElse(Run(<<Head(r.rs)>> \o rest, s, i, g, ic),
                                Run(<<Alt(Tail(r.rs))>> \o rest, s, i, g, ic))
               [] r.t = "rep" ->
                    \* the longest (greedy) or shortest (lazy) repetition after
                    \* which the rest matches
                    Run(<<Try(i + r.min, i + RunLen(r.r, s, i, ic), r.greedy)>> \o rest,
                        s, i, g, ic)
               [] r.t = "try" ->
                    IF r.lo > r.hi THEN Failed
                    ELSE IF r.lo = r.hi THEN Run(rest, s, r.lo, g, ic)
                    ELSE LET mid == (r.lo + r.hi) \div 2
                             low == <<Try(r.lo, mid, r.greedy)>> \o rest
                             high == <<Try(mid + 1, r.hi, r.greedy)>> \o rest
                         IN  IF r.greedy
                             THEN OrElse(Run(high, s, i, g, ic), Run(low, s, i, g, ic))
                             ELSE OrElse(Run(low, s, i, g, ic), Run(high, s, i, g, ic))

NoMatch == [found |-> FALSE]

Found(start, m) == [found |-> TRUE, start |-> start, end |-> m.e, g |-> m.g]

\* the match object of a successful attempt at position start
MatchObject(start, m) == IF m.ok THEN Found(start, m) ELSE NoMatch

\* re.match: anchored at the start of s
ReMatch(r, s, ic) == MatchObject(1, Run(<<r>>, s, 1, <<>>, ic))

RECURSIVE SearchIn(_, _, _, _, _)
\* the match at the leftmost start position of lo..hi
SearchIn(r, s, ic, lo, hi) ==
    IF lo > hi THEN NoMatch
    ELSE IF lo = hi THEN MatchObject(lo, Run(<<r>>, s, lo, <<>>, ic))
    ELSE LET first == SearchIn(r, s, ic, lo, (lo + hi) \div 2)
         IN  IF first.found THEN first ELSE SearchIn(r, s, ic, (lo + hi) \div 2 + 1, hi)

\* re.search: the leftmost start position that matches
ReSearch(r, s, ic) == SearchIn(r, s, ic, 1, Len(s) + 1)

\* m.group(0) and m.group(1) of a match on s
Group0(m, s) == SubSeq(s, m.start, m.end - 1)

Group1(m, s) == SubSeq(s, m.g[1], m.g[2] - 1)

\* the longest digit string int() converts: the interpreter's limit on the
\* length of a decimal string (4300 digits), scaled to the lengths of the
\* messages here
MaxStrDigits == 4

\* int() raises ValueError on the group of match m: it is over the limit
IntRaises(m, text) == m.found /\ Len(Group1(m, text)) > MaxStrDigits

RECURSIVE ToInt(_)
\* int() of a string of at most MaxStrDigits decimal digits
ToInt(s) ==
    IF Len(s) = 0 THEN 0
    ELSE ToInt(SubSeq(s, 1, Len(s) - 1)) * 10 + (IndexIn(CharAt(s, Len(s)), Digits) - 1)

\* the fraction digits without trailing zeros
StripZeros(s) ==
    LET keep == {i \in 1..Len(s) : CharAt(s, i) # "0"}
    IN  IF keep = {} THEN "" ELSE SubSeq(s, 1, Greatest(keep))

\* float() of "ddd" or "ddd.ddd": the value as whole part and fraction digits
ToFloat(s) ==
    IF CharIn(".", s)
    THEN [whole |-> ToInt(SubSeq(s, 1, IndexIn(".", s) - 1)),
          frac  |-> StripZeros(SubSeq(s, IndexIn(".", s) + 1, Len(s)))]
    ELSE [whole |-> ToInt(s), frac |-> ""]

(***************************************************************************)
(* Command types: app/commands/types.py                                    *)
(***************************************************************************)
CommandType ==
    {"CREATE_USER", "LIST_USERS", "SHOW_USER", "DELETE_USER",
     "CREATE_TRAINING", "LIST_TRAININGS", "HELP", "NONE"}

\* a Python dict: a function whose domain is the set of keys present
EmptyDict == <<>>

Has(d, k) == k \in DOMAIN d

\* dict.get(k, default)
Get(d, k, default) == IF k \in DOMAIN d THEN d[k] ELSE default

\* d[k] = v
Put(d, k, v) == (k :> v) @@ d

RECURSIVE Restrict(_, _)
\* the entries of d under keys
Restrict(d, keys) ==
    IF keys = {} THEN EmptyDict
    ELSE LET k == CHOOSE x \in keys : TRUE
         IN  (k :> d[k]) @@ Restrict(d, keys \ {k})

ParsedCommand(command, payload, raw_match) ==
    [command |-> command, payload |-> payload, raw_match |-> raw_match]

CommandResult(success, message, data, needs_confirmation) ==
    [success |-> success, message |-> message, data |-> data,
     needs_confirmation |-> needs_confirmation]

(***************************************************************************)
(* Pattern matcher: app/commands/parser.py                                 *)
(***************************************************************************)
NameChars == Letters \o Whitespace

ReName ==
    Cat(<<Bol, Grp(PlusLazy(Cls(NameChars))), Alt(<<Lit(","), Cls(Digits), Eol>>)>>)

ReAge ==
    Cat(<<Grp(Plus(Cls(Digits))), Star(Cls(Whitespace)),
          Alt(<<Lit("lat"), Lit("lata"), Lit("roku"), Lit("rok"),
                Cat(<<Lit("year"), Opt(Lit("s"))>>),
                Cat(<<Lit("l"), Opt(Lit("."))>>)>>)>>)

ReWeight ==
    Cat(<<Grp(Cat(<<Plus(Cls(Digits)), Opt(Cat(<<Cls(".,"), Plus(Cls(Digits))>>))>>)),
          Star(Cls(Whitespace)), Words(<<"kg", "kilo">>)>>)

ReHeight ==
    Cat(<<Grp(Plus(Cls(Digits))), Star(Cls(Whitespace)), Words(<<"cm", "centymetr">>)>>)

ReGoal ==
    Cat(<<Lit("cel"), Plus(Cls(":" \o Whitespace)), Grp(PlusLazy(Dot)),
          Alt(<<Lit(","), Eol>>)>>)

\* one optional key of a payload: present when the pattern matched
Field(m, key, value) == IF m.found THEN Put(EmptyDict, key, value) ELSE EmptyDict

RECURSIVE Merge(_)
\* the dicts merged; their keys are disjoint
Merge(ds) == IF ds = <<>> THEN EmptyDict ELSE Head(ds) @@ Merge(Tail(ds))

NameField(m, text) == Field(m, "name", Strip(Group1(m, text)))

AgeField(m, text) == Field(m, "age", ToInt(Group1(m, text)))

\* the weight without its fraction: the comma is not read as a dot
WeightField_whole_part(m, text) ==
    Field(m, "weight", [ToFloat(Replace(Group1(m, text), ",", ".")) EXCEPT !.frac = ""])

WeightField(m, text) == Field(m, "weight", ToFloat(Replace(Group1(m, text), ",", ".")))

HeightField(m, text) == Field(m, "height", ToFloat(Group1(m, text)))

GoalsField(m, text) == Field(m, "goals", Strip(Group1(m, text)))

\* parse_user_data raises: its int() does
UserDataRaises(text) == IntRaises(ReSearch(ReAge, text, TRUE), text)

\* Extract user data from text like 'Jan Kowalski, 30 lat, 80kg'
parse_user_data(text) ==
    Merge(<<NameField(ReMatch(ReName, Strip(text), FALSE), Strip(text)),
            AgeField(ReSearch(ReAge, text, TRUE), text),
            WeightField(ReSearch(ReWeight, text, TRUE), text),
            HeightField(ReSearch(ReHeight, text, TRUE), text),
            GoalsField(ReSearch(ReGoal, text, TRUE), text)>>)

\* \b(w1|w2|...)\w*\b
ReWordStem(alts) == Cat(<<WordB, Grp(Alt(alts)), Star(Cls(WordChars)), WordB>>)

ReEasy ==
    ReWordStem(<<Lit("|atw"), Lit("easy"),
                 Cat(<<Lit("pocz"), Cls("a@"), Lit("tkuj")>>), Lit("beginner")>>)

ReHard == ReWordStem(<<Lit("trudn"), Lit("hard"), Lit("zaawans"), Lit("advanced")>>)

ReMedium == ReWordStem(<<Lit("$redni"), Lit("medium"), Lit("intermediate")>>)

ReCircuit == ReWordStem(<<Lit("circuit"), Lit("obwod"), Lit("obw&d")>>)

ReCommon == ReWordStem(<<Lit("common"), Lit("wsp&ln"), Lit("wspoln")>>)

RePeople ==
    Cat(<<Grp(Plus(Cls(Digits))), Star(Cls(Whitespace)),
          Words(<<"osob", "os&b", "person", "people", "uczestnik">>)>>)

ReDuration ==
    Cat(<<Grp(Plus(Cls(Digits))), Star(Cls(Whitespace)), Words(<<"minut", "min">>)>>)

ReFor ==
    Cat(<<Words(<<"dla", "for">>), Plus(Cls(Whitespace)), Grp(Plus(Cls(Letters)))>>)

\* the first pattern of res found in text decides the value
FirstFound(res, values, text, key) ==
    LET hits == {j \in 1..Len(res) : ReSearch(res[j], text, TRUE).found}
    IN  IF hits = {} THEN EmptyDict ELSE Put(EmptyDict, key, values[Least(hits)])

NumPeopleField(m, text) == Field(m, "num_people", ToInt(Group1(m, text)))

DurationField(m, text) == Field(m, "duration", ToInt(Group1(m, text)))

TargetUserField(m, text) == Field(m, "target_user", Strip(Group1(m, text)))

\* parse_training_params raises: one of its int() does
TrainingParamsRaise(text) ==
    \/ IntRaises(ReSearch(RePeople, text, TRUE), text)
    \/ IntRaises(ReSearch(ReDuration, text, TRUE), text)

\* Extract training parameters from text
parse_training_params(text) ==
    Merge(<<FirstFound(<<ReEasy, ReHard, ReMedium>>, <<"easy", "hard", "medium">>,
                       text, "difficulty"),
            FirstFound(<<ReCircuit, ReCommon>>, <<"circuit", "common">>, text, "mode"),
            NumPeopleField(ReSearch(RePeople, text, TRUE), text),
            DurationField(ReSearch(ReDuration, text, TRUE), text),
            TargetUserField(ReSearch(ReFor, text, TRUE), text)>>)

UserNoun == Alt(<<Stem("podopieczn"), Stem("klient"), Stem("u>ytkownik"), Stem("user")>>)

ClientNoun == Alt(<<Stem("podopieczn"), Stem("klient")>>)

DeleteNoun == Alt(<<Stem("podopieczn"), Stem("klient"), Stem("u>ytkownik")>>)

Ws1 == Plus(Cls(Whitespace))

Ws0 == Star(Cls(Whitespace))

\* [A-Z...][a-z...]+ : under re.IGNORECASE both classes accept either case
CapWord == Cat(<<Cls(UpperLetters), Plus(Cls(LowerLetters))>>)

\* Order matters - more specific patterns first
COMMAND_PATTERNS == <<
    [re |-> Cat(<<Bol, Alt(<<Lit("pomoc"), Lit("help"), Lit("komendy"), Lit("commands"),
                            Lit("?")>>), Eol>>),
     command |-> "HELP", extractor |-> "empty"],
    [re |-> Cat(<<Words(<<"dodaj", "utw&rz", "stw&rz", "nowy", "add", "create">>), Ws1,
                  UserNoun, Star(Cls(Whitespace \o ":")), Grp(Plus(Dot))>>),
     command |-> "CREATE_USER", extractor |-> "user_data"],
    [re |-> Cat(<<Words(<<"dodaj", "utw&rz", "nowy">>), Ws1,
                  Grp(Cat(<<CapWord, Opt(Cat(<<Ws1, CapWord>>)),
                            Opt(Cat(<<Cls(Whitespace \o ","), Plus(Dot)>>))>>))>>),
     command |-> "CREATE_USER", extractor |-> "user_data"],
    [re |-> Cat(<<Words(<<"lista", "poka>", "wy$wietl", "list", "show">>), Ws1,
                  Alt(<<Stem("podopieczn"), Stem("klient"), Stem("u>ytkownik"),
                        Stem("wszystk")>>)>>),
     command |-> "LIST_USERS", extractor |-> "empty"],
    [re |-> Cat(<<Words(<<"podopieczni", "klienci", "u>ytkownicy">>), Eol>>),
     command |-> "LIST_USERS", extractor |-> "empty"],
    [re |-> Cat(<<Words(<<"poka>", "dane", "info", "szczeg&|y", "profil">>), Ws1,
                  Opt(ClientNoun), Ws0, Opt(Cls(":-")), Ws0, Grp(Plus(Cls(Letters)))>>),
     command |-> "SHOW_USER", extractor |-> "name"],
    [re |-> Cat(<<Words(<<"usu~", "usun", "skasuj", "delete", "remove">>), Ws1,
                  Opt(DeleteNoun), Ws0, Opt(Cls(":-")), Ws0, Grp(Plus(Cls(Letters)))>>),
     command |-> "DELETE_USER", extractor |-> "name"],
    [re |-> Cat(<<Words(<<"wygeneruj", "stw&rz", "zr&b", "utw&rz", "generuj", "create">>), Ws1,
                  Opt(Cat(<<Lit("plan"), Ws1>>)),
                  Alt(<<Stem("trening"), Lit("training"), Lit("circuit"), Lit("obw&d")>>)>>),
     command |-> "CREATE_TRAINING", extractor |-> "training_params"],
    [re |-> Cat(<<Words(<<"trening", "circuit", "obw&d">>), Ws1,
                  Words(<<"dla", "na", "for">>), Ws1, Grp(Plus(Cls(Digits)))>>),
     command |-> "CREATE_TRAINING", extractor |-> "num_people"],
    [re |-> Cat(<<Words(<<"lista", "poka>", "historia">>), Ws1,
                  Alt(<<Stem("trening"), Stem("plan")>>)>>),
     command |-> "LIST_TRAININGS", extractor |-> "empty"]
    >>

Returned(payload) == [raised |-> FALSE, payload |-> payload]

Raised == [raised |-> TRUE]

\* the payload extractor lambdas of COMMAND_PATTERNS; m is the match on msg.
\* An extractor raises when an int() in it does: float() and the string
\* methods raise nothing on what the patterns let through.
Extract(extractor, m, msg) ==
    CASE extractor = "empty" -> Returned(EmptyDict)
      [] extractor = "user_data" ->
            IF UserDataRaises(Group1(m, msg)) THEN Raised
            ELSE Returned(parse_user_data(Group1(m, msg)))
      [] extractor = "name" -> Returned(Put(EmptyDict, "name", Strip(Group1(m, msg))))
      [] extractor = "training_params" ->
            IF TrainingParamsRaise(msg) THEN Raised
            ELSE Returned(parse_training_params(msg))
      [] extractor = "num_people" ->
            IF IntRaises(m, msg) THEN Raised
            ELSE Returned(Put(EmptyDict, "num_people", ToInt(Group1(m, msg))))

\* one turn of the for loop of parse_command: pattern k matched with match
Matched(k, match, msg) ==
    Extract(COMMAND_PATTERNS[k].extractor, match, msg)

\* the patterns of COMMAND_PATTERNS that match msg and whose extractor returns
Recognizes(k, match, msg) == match.found /\ ~Matched(k, match, msg).raised

\* the for loop of parse_command with break in the except clause: the
\* patterns before the first one whose extractor raises
Recognizers_until_raise(msg) ==
    {k \in 1..Len(COMMAND_PATTERNS) :
        /\ ReSearch(COMMAND_PATTERNS[k].re, msg, TRUE).found
        /\ \A j \in 1..k :
              LET match == ReSearch(COMMAND_PATTERNS[j].re, msg, TRUE)
              IN  match.found => ~Matched(j, match, msg).raised}

Recognizers(msg) ==
    {k \in 1..Len(COMMAND_PATTERNS) :
        Recognizes(k, ReSearch(COMMAND_PATTERNS[k].re, msg, TRUE), msg)}

\* what parse_command returns from pattern k
Recognized(k, match, msg) ==
    ParsedCommand(COMMAND_PATTERNS[k].command, Matched(k, match, msg).payload,
                  Group0(match, msg))

\* the for loop of parse_command run to its end: the last pattern that
\* matches decides
FirstOf_last(first, msg) ==
    IF first = {} THEN ParsedCommand("NONE", EmptyDict, "")
    ELSE Recognized(Greatest(first),
                    ReSearch(COMMAND_PATTERNS[Greatest(first)].re, msg, TRUE), msg)

\* the for loop of parse_command: the first pattern that matches and whose
\* extractor returns decides; none gives NONE
FirstOf(first, msg) ==
    IF first = {} THEN ParsedCommand("NONE", EmptyDict, "")
    ELSE Recognized(Least(first), ReSearch(COMMAND_PATTERNS[Least(first)].re, msg, TRUE), msg)

ParseFrom(msg) == FirstOf(Recognizers(msg), msg)

\* Parse message into command using regex patterns
parse_command(message) == ParseFrom(Strip(message))


(***************************************************************************)
(* Session store: app/commands/session.py                                  *)
(* The store is passed and returned explicitly: P is PENDING_ACTIONS, t is *)
(* the reading of datetime.utcnow(), in minutes.                           *)
(***************************************************************************)
TTL_MINUTES == 5

\* Python None where a record or dict is expected
NoneRec == [none |-> TRUE]

IsNone(x) == "none" \in DOMAIN x

PendingAction(command, payload, preview_message, t) ==
    [command |-> command, payload |-> payload, preview_message |-> preview_message,
     created_at |-> t, expires_at |-> t + TTL_MINUTES]

\* is_expired that counts the expiry timestamp itself as expired
is_expired_at_expiry(action, t) == t >= action.expires_at

\* is_expired with the time to live read as hours
is_expired_hours(action, t) == t > action.created_at + TTL_MINUTES * 60

is_expired(action, t) == t > action.expires_at

\* dict.pop(k, None)
Pop(d, k) == Restrict(d, (DOMAIN d) \ {k})

\* get_pending_action that falls back to the entry of the "default" session
get_pending_action_default(P, session_id, t) ==
    [store |-> P, action |-> Get(P, session_id, Get(P, "default", NoneRec))]

\* returns the store after the call and the action (NoneRec for None)
get_pending_action(P, session_id, t) ==
    LET action == Get(P, session_id, NoneRec)
    IN  IF ~IsNone(action) /\ is_expired(action, t)
        THEN [store |-> Pop(P, session_id), action |-> NoneRec]
        ELSE [store |-> P, action |-> action]

\* set_pending_action as dict.setdefault: an entry already there is kept
set_pending_action_setdefault(P, session_id, action) ==
    IF session_id \in DOMAIN P THEN P ELSE Put(P, session_id, action)

set_pending_action(P, session_id, action) == Put(P, session_id, action)

\* clear_pending_action as PENDING_ACTIONS.clear(): every session's entry goes
clear_pending_action_all(P, session_id) == EmptyDict

clear_pending_action(P, session_id) == Pop(P, session_id)

(***************************************************************************)
(* Keyed-record store: app/storage/__init__.py (clients.json)              *)
(* clients is the content of the file, a JSON list.                        *)
(***************************************************************************)
\* needle in hay (Python's substring test)
Contains(hay, needle) ==
    \E i \in 1..(Len(hay) - Len(needle) + 1) : SubSeq(hay, i, i + Len(needle) - 1) = needle

\* get_client_by_name that asks for the whole name, ignoring case
get_client_by_name_exact(clients, name) ==
    LET hits == {i \in 1..Len(clients) : Lower(clients[i].name) = Lower(name)}
    IN  IF hits = {} THEN NoneRec
        ELSE clients[CHOOSE i \in hits : \A j \in hits : i <= j]

\* the first client whose name contains name, ignoring case; NoneRec if none
get_client_by_name(clients, name) ==
    LET hits == {i \in 1..Len(clients) : Contains(Lower(clients[i].name), Lower(name))}
    IN  IF hits = {} THEN NoneRec
        ELSE clients[CHOOSE i \in hits : \A j \in hits : i <= j]

\* id from the clock in milliseconds, creation date, empty progress list;
\* two calls that read the same clock value get the same id
add_client(clients, client_data, t) ==
    LET c == [id        |-> ToString(t * 60000),
              name      |-> client_data.name,
              age       |-> client_data.age,
              weight    |-> client_data.weight,
              goal      |-> client_data.goal,
              notes     |-> client_data.notes,
              createdAt |-> t \div 1440,
              progress  |-> <<>>]
    IN  [clients |-> Append(clients, c), client |-> c]

delete_client(clients, client_id) ==
    LET kept == SelectSeq(clients, LAMBDA c : c.id # client_id)
    IN  IF Len(kept) < Len(clients)
        THEN [clients |-> kept, deleted |-> TRUE]
        ELSE [clients |-> clients, deleted |-> FALSE]

\* delete_client_by_name once the client was looked up
DeleteFound(clients, client) ==
    IF ~IsNone(client)
    THEN [clients |-> delete_client(clients, client.id).clients, client |-> client]
    ELSE [clients |-> clients, client |-> NoneRec]

delete_client_by_name(clients, name) ==
    DeleteFound(clients, get_client_by_name(clients, name))

(***************************************************************************)
(* Structured store: the users table behind the SQLAlchemy session         *)
(* (alembic/versions/001_initial_schema.py).  db is "none" when the        *)
(* executor has no session, "up" when the session works and "down" when    *)
(* every call on it raises.                                                *)
(***************************************************************************)
DbModes == {"none", "up", "down"}

\* a nullable column: <<>> for NULL, <<v>> for v
Nullable(payload, k) == IF Has(payload, k) THEN <<payload[k]>> ELSE <<>>

\* db.add + db.commit + db.refresh: the unique index on email rejects a
\* second row with the same email; ids are assigned in sequence
DbInsertUser(users, db, row) ==
    IF db = "down" THEN [users |-> users, raised |-> TRUE, error |-> "connection refused"]
    ELSE IF \E i \in 1..Len(users) : users[i].email = row.email
    THEN [users |-> users, raised |-> TRUE, error |-> "duplicate key value: ix_users_email"]
    ELSE [users |-> Append(users, [row EXCEPT !.id = Len(users) + 1]),
          raised |-> FALSE, id |-> Len(users) + 1]


(***************************************************************************)
(* Command executor: app/commands/executor.py                              *)
(* w = [pending, clients, users] is the state the executor acts on:        *)
(* PENDING_ACTIONS, clients.json and the users table.  Every method        *)
(* returns [w |-> the state after, result |-> its CommandResult,           *)
(* calls |-> the storage and session calls it made, in order].             *)
(***************************************************************************)
\* f"{v}" of a float
FloatStr(f) == ToString(f.whole) \o "." \o (IF f.frac = "" THEN "0" ELSE f.frac)

\* f"{v}" of a stored weight: a float, or the int 0 written when absent
WeightStr(v) == IF "int" \in DOMAIN v THEN ToString(v.int) ELSE FloatStr(v)

\* f"{x or '-'}" of a nullable column
OrDash(col, str(_)) == IF col = <<>> THEN "-" ELSE str(col[1])

IntStr(n) == ToString(n)

SameStr(x) == x

Outcome(w, result, calls) == [w |-> w, result |-> result, calls |-> calls]

\* Prepare user creation - ask for confirmation
_create_user(w, payload, session_id, t) ==
    LET name    == Get(payload, "name", "Nieznany")
        age     == IF Has(payload, "age") THEN ToString(payload.age) ELSE "-"
        weight  == IF Has(payload, "weight") THEN FloatStr(payload.weight) ELSE "-"
        goals   == Get(payload, "goals", "-")
        preview == "Doda^ podopiecznego?\n\n| Pole | Warto$^ |\n|------|---------|\n"
                   \o "| Imi# | " \o name \o " |\n"
                   \o "| Wiek | " \o age \o " |\n"
                   \o "| Waga | " \o weight \o " kg |\n"
                   \o "| Cel | " \o goals \o " |\n\n"
                   \o "Potwierd<: **tak** / **anuluj**"
        action  == PendingAction("CREATE_USER", payload, preview, t)
    IN  Outcome([w EXCEPT !.pending = set_pending_action(w.pending, session_id, action)],
                CommandResult(TRUE, preview, NoneRec, TRUE),
                <<"set_pending_action">>)

\* the row _do_create_user adds to the users table
UserRow(payload, name) ==
    [id |-> 0, email |-> Replace(Lower(name), " ", ".") \o "@trenerai.local", name |-> name,
     age |-> Nullable(payload, "age"),
     weight |-> Nullable(payload, "weight"),
     height |-> Nullable(payload, "height"),
     goals |-> Nullable(payload, "goals"),
     preferred_difficulty |-> "MEDIUM"]

\* _do_create_user after db.add, db.commit, db.refresh: the except branch
\* returns the database error, with no write to clients.json
CreatedInDb(w, name, ins) ==
    IF ins.raised
    THEN Outcome(w, CommandResult(FALSE, "B|@d bazy danych: " \o ins.error, NoneRec, FALSE),
                 <<"db.add">>)
    ELSE Outcome([w EXCEPT !.users = ins.users],
                 CommandResult(TRUE,
                     "Dodano podopiecznego **" \o name \o "** (ID: " \o ToString(ins.id) \o ")",
                     [user_id |-> [int |-> ins.id], name |-> name], FALSE),
                 <<"db.add">>)

\* _do_create_user after add_client
CreatedInFile(w, name, added) ==
    Outcome([w EXCEPT !.clients = added.clients],
            CommandResult(TRUE,
                "Dodano podopiecznego **" \o name \o "** (ID: " \o added.client.id \o ")",
                [user_id |-> [str |-> added.client.id], name |-> name], FALSE),
            <<"add_client">>)

\* Actually create the user in DB/storage
_do_create_user(w, payload, db, t) ==
    IF db # "none"
    THEN CreatedInDb(w, Get(payload, "name", "Nieznany"),
                     DbInsertUser(w.users, db,
                                  UserRow(payload, Get(payload, "name", "Nieznany"))))
    ELSE CreatedInFile(w, Get(payload, "name", "Nieznany"),
                       add_client(w.clients,
                                  [name   |-> Get(payload, "name", "Nieznany"),
                                   age    |-> Get(payload, "age", 0),
                                   weight |-> Get(payload, "weight", [int |-> 0]),
                                   goal   |-> Get(payload, "goals", ""),
                                   notes  |-> ""], t))

RECURSIVE DbTable(_, _)
\* the table rows of _list_users, database path
DbTable(users, k) ==
    IF k > Len(users) THEN ""
    ELSE "| " \o ToString(users[k].id) \o " | " \o (IF users[k].name = "" THEN "-" ELSE users[k].name)
         \o " | " \o OrDash(users[k].age, IntStr) \o " | " \o OrDash(users[k].weight, FloatStr)
         \o " kg | " \o OrDash(users[k].goals, SameStr) \o " |\n" \o DbTable(users, k + 1)

RECURSIVE ClientTable(_, _)
\* the table rows of _list_users, JSON path
ClientTable(clients, k) ==
    IF k > Len(clients) THEN ""
    ELSE "| " \o clients[k].name \o " | " \o ToString(clients[k].age) \o " | "
         \o WeightStr(clients[k].weight) \o " kg | " \o clients[k].goal \o " |\n"
         \o ClientTable(clients, k + 1)

\* _list_users that reports a failure when there is nobody to list
_list_users_fails_empty(w, payload, session_id, db) ==
    IF (db = "up" /\ w.users = <<>>) \/ (db # "up" /\ w.clients = <<>>)
    THEN Outcome(w, CommandResult(FALSE, "Brak zarejestrowanych podopiecznych.", NoneRec, FALSE),
                 <<"db.query">>)
    ELSE Outcome(w, CommandResult(TRUE, "**Lista podopiecznych**", NoneRec, FALSE),
                 <<"db.query">>)

\* List all users
_list_users(w, payload, session_id, db) ==
    IF db = "up" /\ w.users = <<>>
    THEN Outcome(w, CommandResult(TRUE, "Brak zarejestrowanych podopiecznych.", NoneRec, FALSE),
                 <<"db.query">>)
    ELSE IF db = "up"
    THEN Outcome(w, CommandResult(TRUE,
                        "**Lista podopiecznych (" \o ToString(Len(w.users)) \o "):**\n\n"
                            \o "| ID | Imi# | Wiek | Waga | Cel |\n|---|---|---|---|---|\n"
                            \o DbTable(w.users, 1),
                        [count |-> Len(w.users)], FALSE),
                 <<"db.query">>)
    ELSE LET calls == IF db = "down" THEN <<"db.query", "load_clients">> ELSE <<"load_clients">>
         IN  IF w.clients = <<>>
             THEN Outcome(w, CommandResult(TRUE, "Brak zarejestrowanych podopiecznych.",
                                           NoneRec, FALSE), calls)
             ELSE Outcome(w, CommandResult(TRUE,
                                 "**Lista podopiecznych (" \o ToString(Len(w.clients)) \o "):**\n\n"
                                     \o "| Imi# | Wiek | Waga | Cel |\n|---|---|---|---|\n"
                                     \o ClientTable(w.clients, 1),
                                 [count |-> Len(w.clients)], FALSE), calls)

\* _show_user once the client was looked up
Shown(w, name, client) ==
    IF IsNone(client)
    THEN Outcome(w, CommandResult(FALSE, "Nie znaleziono podopiecznego: **" \o name \o "**",
                                  NoneRec, FALSE), <<"get_client_by_name">>)
    ELSE Outcome(w, CommandResult(TRUE,
                        "**Profil: " \o client.name \o "**\n\n| Pole | Warto$^ |\n"
                            \o "|------|---------|\n"
                            \o "| Wiek | " \o ToString(client.age) \o " |\n"
                            \o "| Waga | " \o WeightStr(client.weight) \o " kg |\n"
                            \o "| Cel | " \o client.goal \o " |\n"
                            \o "| Dodany | " \o ToString(client.createdAt) \o " |",
                        client, FALSE), <<"get_client_by_name">>)

\* Show user details
_show_user(w, payload, session_id) ==
    Shown(w, Get(payload, "name", ""), get_client_by_name(w.clients, Get(payload, "name", "")))

\* _do_delete_user once delete_client_by_name returned
Deleted(w, name, del) ==
    IF IsNone(del.client)
    THEN Outcome(w, CommandResult(FALSE, "Nie znaleziono: " \o name, NoneRec, FALSE),
                 <<"delete_client_by_name">>)
    ELSE Outcome([w EXCEPT !.clients = del.clients],
                 CommandResult(TRUE, "Usuni#to podopiecznego **" \o del.client.name \o "**",
                               NoneRec, FALSE),
                 <<"delete_client_by_name">>)

\* Actually delete the user
_do_delete_user(w, payload) ==
    Deleted(w, Get(payload, "name", ""),
            delete_client_by_name(w.clients, Get(payload, "name", "")))

\* _delete_user that deletes at once instead of staging the deletion
_delete_user_at_once(w, payload, session_id, t) == _do_delete_user(w, payload)

\* Prepare user deletion - ask for confirmation
_delete_user(w, payload, session_id, t) ==
    LET name    == Get(payload, "name", "")
        preview == "Usun@^ podopiecznego **" \o name \o "**?\n\n"
                   \o "Ta operacja jest nieodwracalna.\n\n"
                   \o "Potwierd<: **tak** / **anuluj**"
        action  == PendingAction("DELETE_USER", payload, preview, t)
    IN  Outcome([w EXCEPT !.pending = set_pending_action(w.pending, session_id, action)],
                CommandResult(TRUE, preview, NoneRec, TRUE),
                <<"set_pending_action">>)

\* _create_training that drops the parsed parameters
_create_training_no_params(w, payload, session_id) ==
    Outcome(w, CommandResult(TRUE, "", [use_langgraph |-> TRUE, params |-> EmptyDict], FALSE), <<>>)

\* Create training - this triggers LangGraph (handled in the chat service)
_create_training(w, payload, session_id) ==
    Outcome(w, CommandResult(TRUE, "", [use_langgraph |-> TRUE, params |-> payload], FALSE), <<>>)

\* _list_trainings that forgets the pending actions
_list_trainings_clears(w, payload, session_id) ==
    Outcome([w EXCEPT !.pending = EmptyDict],
            CommandResult(TRUE, "**Historia trening&w:**\n\n*Funkcja w budowie*", NoneRec, FALSE),
            <<>>)

\* List training history
_list_trainings(w, payload, session_id) ==
    Outcome(w, CommandResult(TRUE, "**Historia trening&w:**\n\n*Funkcja w budowie*",
                             NoneRec, FALSE), <<>>)

\* Show available commands
_help(w, payload, session_id) ==
    Outcome(w, CommandResult(TRUE, "**Dost#pne komendy:** ...", NoneRec, FALSE), <<>>)

\* Execute a parsed command
execute(w, command, session_id, db, t) ==
    CASE command.command = "CREATE_USER" -> _create_user(w, command.payload, session_id, t)
      [] command.command = "LIST_USERS" -> _list_users(w, command.payload, session_id, db)
      [] command.command = "SHOW_USER" -> _show_user(w, command.payload, session_id)
      [] command.command = "DELETE_USER" -> _delete_user(w, command.payload, session_id, t)
      [] command.command = "CREATE_TRAINING" -> _create_training(w, command.payload, session_id)
      [] command.command = "LIST_TRAININGS" -> _list_trainings(w, command.payload, session_id)
      [] command.command = "HELP" -> _help(w, command.payload, session_id)
      [] OTHER -> Outcome(w, CommandResult(FALSE, "Nieznana komenda", NoneRec, FALSE), <<>>)

\* the dispatch of execute_pending without its test of the tag: every
\* action is executed as a creation
DispatchPending_create_only(w, action, db, t) == _do_create_user(w, action.payload, db, t)

\* the dispatch of execute_pending on the stored command tag
DispatchPending(w, action, db, t) ==
    IF action.command = "CREATE_USER" THEN _do_create_user(w, action.payload, db, t)
    ELSE IF action.command = "DELETE_USER" THEN _do_delete_user(w, action.payload)
    ELSE Outcome(w, CommandResult(FALSE, "Nieobs|ugiwana akcja", NoneRec, FALSE), <<>>)

\* execute_pending after the dispatch returned
Dispatched(done) ==
    Outcome(done.w, done.result, <<"get_pending_action", "clear_pending_action">> \o done.calls)

\* execute_pending after its get_pending_action returned got
ExecuteAction(w, got, session_id, db, t) ==
    IF IsNone(got.action)
    THEN Outcome([w EXCEPT !.pending = got.store],
                 CommandResult(FALSE, "Brak oczekuj@cej akcji do potwierdzenia.", NoneRec, FALSE),
                 <<"get_pending_action">>)
    ELSE Dispatched(DispatchPending(
                        [w EXCEPT !.pending = clear_pending_action(got.store, session_id)],
                        got.action, db, t))

\* execute_pending that clears after the dispatch, and only when the
\* operation succeeded: a failed action stays for another confirmation
Restaged(w, done) ==
    IF done.result.success \/ Len(done.calls) = 1 THEN done
    ELSE [done EXCEPT !.w.pending = w.pending]

execute_pending_clear_on_success(w, session_id, db, t) ==
    Restaged(w, ExecuteAction(w, get_pending_action(w.pending, session_id, t),
                              session_id, db, t))

\* execute_pending without its clear_pending_action call
execute_pending_no_clear(w, session_id, db, t) ==
    IF IsNone(get_pending_action(w.pending, session_id, t).action)
    THEN ExecuteAction(w, get_pending_action(w.pending, session_id, t), session_id, db, t)
    ELSE Dispatched(DispatchPending(
                        [w EXCEPT !.pending = get_pending_action(w.pending, session_id, t).store],
                        get_pending_action(w.pending, session_id, t).action, db, t))

\* Execute pending action after confirmation
execute_pending(w, session_id, db, t) ==
    ExecuteAction(w, get_pending_action(w.pending, session_id, t), session_id, db, t)


(***************************************************************************)
(* Chat orchestrator: app/services/chat_service.py                         *)
(* A request is [message, session_id]; env = [db, ext] says which database *)
(* session the service was built with and whether the collaborator this    *)
(* request calls (the plan graph or the language model) answers ("ok") or  *)
(* raises ("raise").  Every method returns [w, response, calls, result]: the state  *)
(* after, the response dict, the calls made, in order, and the executor's  *)
(* CommandResult the response was built from (NoneRec without one).        *)
(***************************************************************************)
\* messages clients send
Messages ==
    {"tak", "nie", "tak jest", "dodaj Jana, 25 lat", "usun Jan", "lista klient&w",
     "trening dla 5", "generuj trening hard common 3 osoby"}

RECURSIVE Tabulate(_, _)
\* the values of a pure function f on the messages ms, computed once
Tabulate(f(_), ms) ==
    IF ms = {} THEN EmptyDict
    ELSE LET m == CHOOSE x \in ms : TRUE
         IN  (m :> f(m)) @@ Tabulate(f, ms \ {m})

\* is_confirmation and parse_command on the messages of the model
ConfirmationOf == Tabulate(is_confirmation, Messages)

CommandOf == Tabulate(parse_command, Messages)

Reply(w, response, calls, result) ==
    [w |-> w, response |-> response, calls |-> calls, result |-> result]

\* the response of _handle_confirmation once execute_pending returned done:
\* command is the pending command whatever done.result.success is
Confirmed(pending, done) ==
    Reply(done.w,
          [response |-> done.result.message,
           command  |-> pending.command,
           data     |-> done.result.data],
          <<"get_pending_action", "execute_pending">> \o done.calls,
          done.result)

\* _handle_confirmation after its get_pending_action returned got
ConfirmPending(w, got, session_id, db, t) ==
    IF ~IsNone(got.action)
    THEN Confirmed(got.action,
                   execute_pending([w EXCEPT !.pending = got.store], session_id, db, t))
    ELSE Reply([w EXCEPT !.pending = got.store],
               [response |-> "Nie mam nic do potwierdzenia."],
               <<"get_pending_action">>, NoneRec)

\* Handle 'tak' confirmation
_handle_confirmation(w, session_id, db, t) ==
    ConfirmPending(w, get_pending_action(w.pending, session_id, t), session_id, db, t)

\* _handle_cancellation that answers without clearing the store
_handle_cancellation_keep(w, session_id) ==
    Reply(w, [response |-> "Anulowano."], <<>>, NoneRec)

\* Handle 'anuluj' cancellation
_handle_cancellation(w, session_id) ==
    Reply([w EXCEPT !.pending = clear_pending_action(w.pending, session_id)],
          [response |-> "Anulowano."],
          <<"clear_pending_action">>, NoneRec)

\* Generate training plan using LangGraph
_generate_training(w, params, graph) ==
    LET inputs == [num_people     |-> Get(params, "num_people", 1),
                   difficulty     |-> Get(params, "difficulty", "medium"),
                   rest_time      |-> 60,
                   mode           |-> Get(params, "mode", "circuit"),
                   warmup_count   |-> 3,
                   main_count     |-> 5,
                   cooldown_count |-> 3]
    IN  IF graph = "ok"
        THEN Reply(w,
                   [response |-> "**Plan treningowy wygenerowany!**\n\n*(szczeg&|y w data)*",
                    command  |-> "CREATE_TRAINING",
                    data     |-> [plan |-> "final_plan", params |-> inputs]],
                   <<"app_graph.invoke">>, NoneRec)
        ELSE Reply(w, [response |-> "B|@d generowania planu: " \o "graph failure"],
                   <<"app_graph.invoke", "except">>, NoneRec)

\* _handle_command when the result asks for the plan graph
Generated(done, gen) ==
    Reply(gen.w, gen.response, <<"execute">> \o done.calls \o gen.calls, done.result)

\* _handle_command after execute returned done
Executed(parsed, done, graph) ==
    IF ~IsNone(done.result.data) /\ Get(done.result.data, "use_langgraph", FALSE)
    THEN Generated(done,
                   _generate_training(done.w, Get(done.result.data, "params", EmptyDict), graph))
    ELSE Reply(done.w,
               [response           |-> done.result.message,
                command            |-> IF done.result.success THEN parsed.command ELSE None,
                data               |-> done.result.data,
                needs_confirmation |-> done.result.needs_confirmation],
               <<"execute">> \o done.calls, done.result)

\* Execute a parsed command
_handle_command(w, parsed, session_id, db, graph, t) ==
    Executed(parsed, execute(w, parsed, session_id, db, t), graph)

\* _handle_general_chat that starts the conversation afresh: the actions
\* waiting for a confirmation are dropped
_handle_general_chat_forgets(w, request, llm) ==
    IF llm = "ok"
    THEN Reply([w EXCEPT !.pending = EmptyDict], [response |-> "llm answer"],
               <<"llm.invoke">>, NoneRec)
    ELSE Reply([w EXCEPT !.pending = EmptyDict], [response |-> "B|@d: " \o "llm failure"],
               <<"llm.invoke", "except">>, NoneRec)

\* _handle_general_chat without its try: the failure of the model call
\* leaves the method as an exception, and no response dict is returned
_handle_general_chat_uncaught(w, request, llm) ==
    IF llm = "ok"
    THEN Reply(w, [response |-> "llm answer"], <<"llm.invoke">>, NoneRec)
    ELSE Reply(w, [raised |-> "llm failure"], <<"llm.invoke", "except">>, NoneRec)

\* Handle general chat with RAG: retrieval and the model call sit in one try
_handle_general_chat(w, request, llm) ==
    IF llm = "ok"
    THEN Reply(w, [response |-> "llm answer"], <<"llm.invoke">>, NoneRec)
    ELSE Reply(w, [response |-> "B|@d: " \o "llm failure"], <<"llm.invoke", "except">>, NoneRec)

\* the calls handle_message made itself, before those of the handler r
Traced(calls, r) == Reply(r.w, r.response, calls \o r.calls, r.result)

\* handle_message that sends a training request to the language model too
Parsed_training_to_chat(w, request, parsed, session_id, env, t) ==
    IF parsed.command \notin {"NONE", "CREATE_TRAINING"}
    THEN _handle_command(w, parsed, session_id, env.db, env.ext, t)
    ELSE _handle_general_chat(w, request, env.ext)

\* handle_message after parse_command returned parsed
Parsed(w, request, parsed, session_id, env, t) ==
    IF parsed.command # "NONE"
    THEN _handle_command(w, parsed, session_id, env.db, env.ext, t)
    ELSE _handle_general_chat(w, request, env.ext)

\* handle_message after is_confirmation returned confirmation
Routed(w, request, confirmation, session_id, env, t) ==
    IF confirmation = "True"
    THEN Traced(<<"is_confirmation">>, _handle_confirmation(w, session_id, env.db, t))
    ELSE IF confirmation = "False"
    THEN Traced(<<"is_confirmation">>, _handle_cancellation(w, session_id))
    ELSE Traced(<<"is_confirmation", "parse_command">>,
                Parsed(w, request, CommandOf[request.message], session_id, env, t))

\* handle_message that runs the pattern matcher before the confirmation gate
handle_message_parse_first(w, request, env, t) ==
    IF CommandOf[request.message].command # "NONE"
    THEN Traced(<<"parse_command">>,
                _handle_command(w, CommandOf[request.message],
                                IF request.session_id = "" THEN "default" ELSE request.session_id,
                                env.db, env.ext, t))
    ELSE Traced(<<"parse_command">>,
                Routed(w, request, ConfirmationOf[request.message],
                       IF request.session_id = "" THEN "default" ELSE request.session_id,
                       env, t))

\* Process a chat message and return response
handle_message(w, request, env, t) ==
    Routed(w, request, ConfirmationOf[request.message],
           IF request.session_id = "" THEN "default" ELSE request.session_id, env, t)


(***************************************************************************)
(* The chat endpoint as a state machine: app/api/chat.py                   *)
(***************************************************************************)
MaxTime == 6

MaxClients == 2

\* session_id of a request; "" stands for an absent one
SessionInputs == {"", "anna"}

\* the service built without a database session (the JSON store is used)
PlainEnvs == {[db |-> "none", ext |-> "ok"], [db |-> "none", ext |-> "raise"]}

\* the service built with or without a database session
DbEnvs == {[db |-> "none", ext |-> "ok"], [db |-> "up", ext |-> "ok"], [db |-> "down", ext |-> "ok"]}

\* the messages that reach a store
StoreMessages == {"tak", "nie", "dodaj Jana, 25 lat", "usun Jan", "lista klient&w"}

\* time passes in steps that reach the expiry of an action staged before the
\* step (TTL_MINUTES later) or pass it
ClockSteps == {TTL_MINUTES, TTL_MINUTES + 1}

VARIABLES
    PENDING_ACTIONS,   \* session.py: session id -> PendingAction
    clients,           \* storage: the list in clients.json
    users,             \* database: the rows of the users table
    now,               \* the clock, in minutes
    last,              \* the last request handled: its message and session, the
                       \* session's pending action before it, its response, the
                       \* calls it made and the executor's result
    pc,                \* per worker thread: where it is in _handle_confirmation
    loc,               \* per worker thread: its local variables pending and action
    resp               \* per worker thread: the response it returned last

vars == <<PENDING_ACTIONS, clients, users, now, last, pc, loc, resp>>

Threads == {1, 2}

World == [pending |-> PENDING_ACTIONS, clients |-> clients, users |-> users]

Init ==
    /\ PENDING_ACTIONS = EmptyDict
    /\ clients = <<>>
    /\ users = <<>>
    /\ now = 0
    /\ last = [message |-> "", session_id |-> "", before |-> NoneRec,
               response |-> EmptyDict, calls |-> <<>>, result |-> NoneRec]
    /\ pc = [t \in Threads |-> "idle"]
    /\ loc = [t \in Threads |-> [pending |-> NoneRec, action |-> NoneRec]]
    /\ resp = [t \in Threads |-> EmptyDict]

\* the state after handle_message returned r
Handled(session_id, message, r) ==
    /\ Len(r.w.clients) <= MaxClients
    /\ Len(r.w.users) <= MaxClients
    /\ PENDING_ACTIONS' = r.w.pending
    /\ clients' = r.w.clients
    /\ users' = r.w.users
    /\ last' = [message |-> message,
                session_id |-> IF session_id = "" THEN "default" ELSE session_id,
                before |-> Get(PENDING_ACTIONS,
                               IF session_id = "" THEN "default" ELSE session_id, NoneRec),
                response |-> r.response, calls |-> r.calls,
                result |-> r.result]
    /\ UNCHANGED <<now, pc, loc, resp>>

\* POST /api/chat: one request handled from start to end
Chat(session_id, message, env) ==
    Handled(session_id, message,
            handle_message(World, [message |-> message, session_id |-> session_id], env, now))

\* time passes
Tick(d) ==
    /\ now + d <= MaxTime
    /\ now' = now + d
    /\ UNCHANGED <<PENDING_ACTIONS, clients, users, last, pc, loc, resp>>

\* two sessions, every kind of message, no database session
Next ==
    \/ \E session_id \in SessionInputs, message \in Messages, env \in PlainEnvs :
          Chat(session_id, message, env)
    \/ \E d \in ClockSteps : Tick(d)

Spec == Init /\ [][Next]_vars

\* one session, the messages that reach a store, every database mode
NextDb ==
    \/ \E message \in StoreMessages, env \in DbEnvs : Chat("", message, env)
    \/ \E d \in ClockSteps : Tick(d)

SpecDb == Init /\ [][NextDb]_vars


(***************************************************************************)
(* Two requests of one session handled by two threads at once.  The        *)
(* session store takes no lock, so a thread can be preempted between any   *)
(* two calls of _handle_confirmation and execute_pending; each call on the *)
(* dict is one step.  The session is "default", the service has no         *)
(* database session, and the session holds the action staged by            *)
(* "dodaj Jana, 25 lat" when the threads start.  A request that stages an  *)
(* action is one step: it calls the dict once.                             *)
(***************************************************************************)
Staged ==
    handle_message([pending |-> EmptyDict, clients |-> <<>>, users |-> <<>>],
                   [message |-> "dodaj Jana, 25 lat", session_id |-> ""],
                   [db |-> "none", ext |-> "ok"], 0).w.pending

InitConc ==
    /\ PENDING_ACTIONS = Staged
    /\ clients = <<>>
    /\ users = <<>>
    /\ now = 0
    /\ last = [message |-> "dodaj Jana, 25 lat", session_id |-> "default", before |-> NoneRec,
               response |-> EmptyDict, calls |-> <<>>, result |-> NoneRec]
    /\ pc = [t \in Threads |-> "idle"]
    /\ loc = [t \in Threads |-> [pending |-> NoneRec, action |-> NoneRec]]
    /\ resp = [t \in Threads |-> EmptyDict]

\* chat_service.py line 79: "tak" arrives, pending = get_pending_action(session_id)
ConfirmGet(t) ==
    /\ pc[t] = "idle"
    /\ LET got == get_pending_action(PENDING_ACTIONS, "default", now)
       IN  /\ PENDING_ACTIONS' = got.store
           /\ loc' = [loc EXCEPT ![t] = [pending |-> got.action, action |-> NoneRec]]
           /\ IF IsNone(got.action)
              THEN /\ resp' = [resp EXCEPT ![t] = [response |-> "Nie mam nic do potwierdzenia."]]
                   /\ pc' = pc
              ELSE /\ resp' = resp
                   /\ pc' = [pc EXCEPT ![t] = "execute_pending"]
    /\ UNCHANGED <<clients, users, now, last>>

\* executor.py line 48: action = get_pending_action(session_id)
ExecGet(t) ==
    /\ pc[t] = "execute_pending"
    /\ LET got == get_pending_action(PENDING_ACTIONS, "default", now)
       IN  /\ PENDING_ACTIONS' = got.store
           /\ loc' = [loc EXCEPT ![t].action = got.action]
           /\ IF IsNone(got.action)
              THEN /\ resp' = [resp EXCEPT ![t] =
                                  [response |-> "Brak oczekuj@cej akcji do potwierdzenia.",
                                   command  |-> loc[t].pending.command,
                                   data     |-> NoneRec]]
                   /\ pc' = [pc EXCEPT ![t] = "idle"]
              ELSE /\ resp' = resp
                   /\ pc' = [pc EXCEPT ![t] = "clear"]
    /\ UNCHANGED <<clients, users, now, last>>

\* executor.py line 52: clear_pending_action(session_id)
ExecClear(t) ==
    /\ pc[t] = "clear"
    /\ PENDING_ACTIONS' = clear_pending_action(PENDING_ACTIONS, "default")
    /\ pc' = [pc EXCEPT ![t] = "dispatch"]
    /\ UNCHANGED <<clients, users, now, last, loc, resp>>

\* the state after the dispatch of thread t returned done
DispatchDone(t, done) ==
    /\ Len(done.w.clients) <= MaxClients
    /\ clients' = done.w.clients
    /\ users' = done.w.users
    /\ resp' = [resp EXCEPT ![t] =
                   [response |-> done.result.message,
                    command  |-> loc[t].pending.command,
                    data     |-> done.result.data]]

\* executor.py lines 55-60 and chat_service.py lines 82-86
ExecDispatch(t) ==
    /\ pc[t] = "dispatch"
    /\ DispatchDone(t, DispatchPending(World, loc[t].action, "none", now))
    /\ pc' = [pc EXCEPT ![t] = "idle"]
    /\ UNCHANGED <<PENDING_ACTIONS, now, last, loc>>

\* chat_service.py line 91: "anuluj" arrives
Cancel(t) ==
    /\ pc[t] = "idle"
    /\ PENDING_ACTIONS' = clear_pending_action(PENDING_ACTIONS, "default")
    /\ resp' = [resp EXCEPT ![t] = [response |-> "Anulowano."]]
    /\ UNCHANGED <<clients, users, now, last, pc, loc>>

\* the message of the request that stages while the affirmation is handled
StagingMessages == {"usun Jan"}

\* the state after handle_message of thread t returned r, having staged
StagedBy(t, r) ==
    /\ ~IsNone(r.result)
    /\ r.result.needs_confirmation
    /\ PENDING_ACTIONS' = r.w.pending
    /\ resp' = [resp EXCEPT ![t] = r.response]

\* a staging message arrives and is handled from start to end: the one call
\* it makes on the dict is set_pending_action (executor.py lines 87 and 219)
Stage(t) ==
    /\ pc[t] = "idle"
    /\ \E message \in StagingMessages :
          StagedBy(t, handle_message(World, [message |-> message, session_id |-> ""],
                                     [db |-> "none", ext |-> "ok"], now))
    /\ UNCHANGED <<clients, users, now, last, pc, loc>>

NextConc ==
    \/ \E t \in Threads : ConfirmGet(t)
    \/ \E t \in Threads : Stage(t)
    \/ \E t \in Threads : ExecGet(t)
    \/ \E t \in Threads : ExecClear(t)
    \/ \E t \in Threads : ExecDispatch(t)
    \/ \E t \in Threads : Cancel(t)
    \/ \E d \in ClockSteps : Tick(d)

SpecConc == InitConc /\ [][NextConc]_vars


(***************************************************************************)
(* The command executor called directly: CommandExecutor.execute and       *)
(* CommandExecutor.execute_pending of app/commands/executor.py, on every   *)
(* kind of command, with payloads that name a stored client by a part of   *)
(* its name, in another case, not at all, or name no stored client; the    *)
(* executor is built without a database session, with a working one or     *)
(* with one that raises.  last describes the call: the method, its         *)
(* command, the store the call found, the calls made and the result.       *)
(***************************************************************************)
Name(n) == Put(EmptyDict, "name", n)

\* the commands execute is called with
Commands ==
    {ParsedCommand("HELP", EmptyDict, "pomoc"),
     ParsedCommand("LIST_USERS", EmptyDict, "lista"),
     ParsedCommand("LIST_TRAININGS", EmptyDict, "historia trening&w"),
     ParsedCommand("SHOW_USER", EmptyDict, "poka>"),
     ParsedCommand("SHOW_USER", Name("AN"), "poka> AN"),
     ParsedCommand("SHOW_USER", Name("Ola"), "poka> Ola"),
     ParsedCommand("CREATE_USER", Name("Jan"), "dodaj Jan"),
     ParsedCommand("CREATE_USER",
                   [name |-> "Joanna", age |-> 30, weight |-> [whole |-> 60, frac |-> "5"],
                    goals |-> "masa"],
                   "dodaj Joanna, 30 lat, 60,5kg, cel: masa"),
     ParsedCommand("DELETE_USER", Name("AN"), "usu~ AN"),
     ParsedCommand("DELETE_USER", Name("Ola"), "usu~ Ola"),
     ParsedCommand("CREATE_TRAINING", EmptyDict, "trening")}

InitExec ==
    /\ PENDING_ACTIONS = EmptyDict
    /\ clients = <<>>
    /\ users = <<>>
    /\ now = 0
    /\ last = [op |-> "", command |-> ParsedCommand("NONE", EmptyDict, ""), db |-> "none",
               before |-> NoneRec, calls |-> <<>>, result |-> NoneRec]
    /\ pc = [t \in Threads |-> "idle"]
    /\ loc = [t \in Threads |-> [pending |-> NoneRec, action |-> NoneRec]]
    /\ resp = [t \in Threads |-> EmptyDict]

\* the state after a method of the executor returned r
Returns(op, command, db, r) ==
    /\ Len(r.w.clients) + Len(r.w.users) <= MaxClients
    /\ PENDING_ACTIONS' = r.w.pending
    /\ clients' = r.w.clients
    /\ users' = r.w.users
    /\ last' = [op |-> op, command |-> command, db |-> db,
                before |-> Get(PENDING_ACTIONS, "default", NoneRec),
                calls |-> r.calls, result |-> r.result]
    /\ UNCHANGED <<now, pc, loc, resp>>

\* executor.execute(command, session_id)
Execute(command, db) ==
    Returns("execute", command, db, execute(World, command, "default", db, now))

\* executor.execute_pending(session_id)
ExecutePending(db) ==
    Returns("execute_pending", ParsedCommand("NONE", EmptyDict, ""), db,
            execute_pending(World, "default", db, now))

\* the database sessions that make a difference to execute: of the methods
\* it dispatches to, only _list_users reads self.db
DbModesOf(command) == IF command.command = "LIST_USERS" THEN DbModes ELSE {"none"}

NextExec ==
    \/ \E command \in Commands : \E db \in DbModesOf(command) : Execute(command, db)
    \/ \E db \in DbModes : ExecutePending(db)
    \/ Tick(TTL_MINUTES + 1)

SpecExec == InitExec /\ [][NextExec]_vars


(***************************************************************************)
(* is_confirmation called on its own (app/commands/session.py), on the     *)
(* words of both vocabularies written in the ways a client may write them: *)
(* as the whole message, in another case and with white space around,      *)
(* which the function is to see through, and as a part of a longer         *)
(* message.  last holds the message, the word and the way it was written,  *)
(* and the value returned.                                                 *)
(***************************************************************************)
\* str.upper() on one character
UpperChar(c) ==
    IF CharIn(c, AsciiLower) THEN CharAt(AsciiUpper, IndexIn(c, AsciiLower))
    ELSE IF CharIn(c, PolishLower) THEN CharAt(PolishUpper, IndexIn(c, PolishLower))
    ELSE c

RECURSIVE Upper(_)
\* str.upper()
Upper(s) == IF Len(s) = 0 THEN s ELSE UpperChar(CharAt(s, 1)) \o Upper(SubSeq(s, 2, Len(s)))

\* the ways that leave the word the whole message
WholeKinds == {"as is", "upper case", "capitalised", "spaces around", "tab and newline around"}

\* the ways that make the word a part of a longer message
PartKinds == {"word after", "word before", "doubled", "punctuated", "inside a word"}

\* the message that writes word in the way kind
Written(word, kind) ==
    CASE kind = "as is" -> word
      [] kind = "upper case" -> Upper(word)
      [] kind = "capitalised" -> UpperChar(CharAt(word, 1)) \o SubSeq(word, 2, Len(word))
      [] kind = "spaces around" -> "  " \o word \o " "
      [] kind = "tab and newline around" -> "\t" \o Upper(word) \o "\n"
      [] kind = "word after" -> word \o " jest"
      [] kind = "word before" -> "no to " \o word
      [] kind = "doubled" -> word \o word
      [] kind = "punctuated" -> word \o "!"
      [] kind = "inside a word" -> "x" \o word \o "x"

InitWords ==
    /\ PENDING_ACTIONS = EmptyDict
    /\ clients = <<>>
    /\ users = <<>>
    /\ now = 0
    /\ last = [message |-> "", word |-> "", kind |-> "", result |-> is_confirmation("")]
    /\ pc = [t \in Threads |-> "idle"]
    /\ loc = [t \in Threads |-> [pending |-> NoneRec, action |-> NoneRec]]
    /\ resp = [t \in Threads |-> EmptyDict]

\* is_confirmation(message) returned result
Classified(message, word, kind, result) ==
    /\ last' = [message |-> message, word |-> word, kind |-> kind, result |-> result]
    /\ UNCHANGED <<PENDING_ACTIONS, clients, users, now, pc, loc, resp>>

Classify(word, kind) ==
    Classified(Written(word, kind), word, kind, is_confirmation(Written(word, kind)))

NextWords ==
    \E word \in AffirmWords \cup DenyWords, kind \in WholeKinds \cup PartKinds :
        Classify(word, kind)

SpecWords == InitWords /\ [][NextWords]_vars

(***************************************************************************)
(* parse_command called on its own (app/commands/parser.py).  The message  *)
(* is drawn when the run starts; the one step of a run parses it.  The     *)
(* messages bring every pattern of COMMAND_PATTERNS to match, alone and    *)
(* together with later ones, in another case and with white space around,  *)
(* and some match no pattern.  last holds the message and, once parsed,    *)
(* the ParsedCommand.                                                      *)
(***************************************************************************)
ParseInputs ==
    {"pomoc", " Pomoc ", "HELP", "komendy", "commands", "?", "pomoc!", "help me",
     "dodaj klienta Ewa", "Dodaj podopiecznego: Jan", "create user Bob", "add klient Al",
     "nowy klient", "dodaj Jana", "DODAJ Jana", "utw&rz Ola, 30 lat", "nowy Jan Kowalski",
     "dodaj jana", "lista klient&w", "poka> podopiecznych", "show wszystkich",
     "list u>ytkownik&w", "podopieczni", "Klienci", "u>ytkownicy", "klienci dzi$",
     "poka> Jan", "profil klienta Ewa", "info: Ola", "dane - Jan", "poka> 5", "usu~ Jan",
     "usun klienta Ewa", "delete Bob", "skasuj", "wygeneruj trening",
     "zr&b plan treningowy", "generuj obw&d", "create training", "stw&rz trening",
     "utw&rz Trening", "trening dla 5", "circuit for 3", "obw&d na 12", "trening dla Jana",
     "lista trening&w", "historia plan&w", "poka> treningi", "poka> plany", "list plan&w",
     "dodaj klienta poka> Jan", "usu~ Jan pomoc", "generuj trening dla 5", "tak jest",
     "utw&rz trening", "utw&rz plan treningowy",
     "dodaj podopiecznego Jan, 30 lat, 80,5kg, cel: masa",
     "dodaj podopiecznego Jan, 30 lat, 80,5kg",
     "dodaj podopiecznego Jan, 30 lat, cel: masa", "dodaj podopiecznego Jan, 30 lat",
     "dodaj podopiecznego Jan, 80,5kg, cel: masa", "dodaj podopiecznego Jan, 80,5kg",
     "dodaj podopiecznego Jan, cel: masa", "dodaj podopiecznego Jan",
     "dodaj podopiecznego 30 lat, 80,5kg, cel: masa", "dodaj podopiecznego 30 lat, 80,5kg",
     "dodaj podopiecznego 30 lat, cel: masa", "dodaj podopiecznego 30 lat",
     "dodaj podopiecznego 80,5kg, cel: masa", "dodaj podopiecznego 80,5kg",
     "dodaj podopiecznego cel: masa",
     "dodaj podopiecznego Jan Kowalski, 30 lat, 80kg, cel: schudn@^",
     "dodaj podopiecznego Ola, 7 lat, 42.25kg"}

InitParse ==
    /\ PENDING_ACTIONS = EmptyDict
    /\ clients = <<>>
    /\ users = <<>>
    /\ now = 0
    /\ last \in {[message |-> m, parsed |-> NoneRec] : m \in ParseInputs}
    /\ pc = [t \in Threads |-> "idle"]
    /\ loc = [t \in Threads |-> [pending |-> NoneRec, action |-> NoneRec]]
    /\ resp = [t \in Threads |-> EmptyDict]

\* parsed = parse_command(request.message)
ParseCommand ==
    /\ IsNone(last.parsed)
    /\ last' = [last EXCEPT !.parsed = parse_command(last.message)]
    /\ UNCHANGED <<PENDING_ACTIONS, clients, users, now, pc, loc, resp>>

NextParse == ParseCommand

SpecParse == InitParse /\ [][NextParse]_vars
(***************************************************************************)
(* parse_command on messages whose numbers int() may refuse.  A message is *)
(* a head that brings a pattern with a converting extractor to match, a    *)
(* number at, over or far under the limit of int(), and a tail that is a   *)
(* unit of one of the sub-patterns or brings a later pattern to match.     *)
(***************************************************************************)
RECURSIVE Ones(_)
\* a number of n digits
Ones(n) == IF n = 0 THEN "" ELSE "1" \o Ones(n - 1)

RaiseHeads == {"trening dla ", "nowy user Al ", "dodaj Ewa ", "zr&b trening "}

RaiseNumbers == {Ones(MaxStrDigits + 1), Ones(MaxStrDigits), "3"}

RaiseTails == {"", " lat", " os&b", " klienci", " lista plan&w"}

RaiseInputs == {h \o n \o t : h \in RaiseHeads, n \in RaiseNumbers, t \in RaiseTails}

InitRaise ==
    /\ PENDING_ACTIONS = EmptyDict
    /\ clients = <<>>
    /\ users = <<>>
    /\ now = 0
    /\ last \in {[message |-> m, parsed |-> NoneRec] : m \in RaiseInputs}
    /\ pc = [t \in Threads |-> "idle"]
    /\ loc = [t \in Threads |-> [pending |-> NoneRec, action |-> NoneRec]]
    /\ resp = [t \in Threads |-> EmptyDict]

SpecRaise == InitRaise /\ [][NextParse]_vars

(***************************************************************************)
(* Properties of the confirmation protocol.  In a step that handles a      *)
(* request the clock stands still and last' describes the request; the     *)
(* unprimed variables are the state the request found.                     *)
(***************************************************************************)
ChatStep == now' = now

Affirm(m) == m \in Messages /\ ConfirmationOf[m] = "True"

Deny(m) == m \in Messages /\ ConfirmationOf[m] = "False"

\* m is not a confirmation word and parses to a command that is staged
Staging(m) ==
    /\ m \in Messages
    /\ ConfirmationOf[m] = None
    /\ CommandOf[m].command \in {"CREATE_USER", "DELETE_USER"}

Called(calls, c) == \E i \in 1..Len(calls) : calls[i] = c

NothingToConfirm == [response |-> "Nie mam nic do potwierdzenia."]

Cancelled == [response |-> "Anulowano."]

\* session sid holds an action whose expiry timestamp has not passed
Unexpired(sid) == sid \in DOMAIN PENDING_ACTIONS /\ now <= PENDING_ACTIONS[sid].expires_at

\* session sid holds an action whose expiry timestamp has passed
Expired(sid) == sid \in DOMAIN PENDING_ACTIONS /\ now > PENDING_ACTIONS[sid].expires_at

\* the sessions of the model and one that never sends a request
SessionIds == {"default", "anna", "nobody"}

C1_Step ==
    ChatStep =>
        /\ (clients' # clients \/ users' # users) =>
               Affirm(last'.message) /\ Unexpired(last'.session_id)
        /\ Staging(last'.message) =>
               /\ Called(last'.calls, "execute")
               /\ clients' = clients
               /\ users' = users
               /\ last'.session_id \in DOMAIN PENDING_ACTIONS'
               /\ PENDING_ACTIONS'[last'.session_id].command = CommandOf[last'.message].command
               /\ PENDING_ACTIONS'[last'.session_id].payload = CommandOf[last'.message].payload
               /\ last'.result.success
               /\ last'.result.needs_confirmation

\* C1: clients.json and the users table change only in a step whose message
\* is an affirmation and whose session holds an unexpired pending action;
\* execute on CREATE_USER or DELETE_USER changes neither, writes a pending
\* action with the command and its whole payload, and returns success and
\* needs_confirmation.
C1_MutationOnlyOnConfirm == [][C1_Step]_vars

\* an affirmation has just created a record
C1_Witness ==
    /\ Affirm(last.message)
    /\ ~IsNone(last.before)
    /\ ~IsNone(last.result)
    /\ last.result.success
    /\ Len(clients) + Len(users) > 0

C2_Step ==
    ChatStep =>
        /\ \A sid \in DOMAIN PENDING_ACTIONS' :
               PENDING_ACTIONS'[sid].command \in {"CREATE_USER", "DELETE_USER"}
        /\ Staging(last'.message) =>
               PENDING_ACTIONS' =
                   Put(PENDING_ACTIONS, last'.session_id,
                       PendingAction(CommandOf[last'.message].command,
                                     CommandOf[last'.message].payload,
                                     last'.response.response, now))
        /\ (Affirm(last'.message) /\ Unexpired(last'.session_id)) =>
               /\ last'.session_id \notin DOMAIN PENDING_ACTIONS'
               /\ last'.response.command = PENDING_ACTIONS[last'.session_id].command
               /\ IF PENDING_ACTIONS[last'.session_id].command = "CREATE_USER"
                  THEN /\ Len(clients') = Len(clients) + 1
                       /\ SubSeq(clients', 1, Len(clients)) = clients
                       /\ clients'[Len(clients')].name =
                              PENDING_ACTIONS[last'.session_id].payload.name
                  ELSE /\ Len(clients') <= Len(clients)
                       /\ \A i \in 1..Len(clients') : \E j \in 1..Len(clients) :
                              clients'[i] = clients[j]
        /\ ~Staging(last'.message) =>
               \A sid \in DOMAIN PENDING_ACTIONS' :
                   sid \in DOMAIN PENDING_ACTIONS /\ PENDING_ACTIONS'[sid] = PENDING_ACTIONS[sid]

\* C2: the store holds one action per session; staging replaces the
\* session's entry by the action of the command just parsed, no other step
\* changes an entry, and an affirmation executes the entry it finds: the
\* command staged last, with its payload, and nothing staged before it.
C2_LastWriteWins == [][C2_Step]_vars

\* a staged command has just replaced a different one staged before it
C2_Witness ==
    /\ Staging(last.message)
    /\ ~IsNone(last.before)
    /\ last.before.command # CommandOf[last.message].command
    /\ PENDING_ACTIONS[last.session_id].command = CommandOf[last.message].command

C3_Step ==
    ChatStep =>
        /\ (/\ Affirm(last'.message)
            /\ Unexpired(last'.session_id)
            /\ PENDING_ACTIONS[last'.session_id].command = "CREATE_USER") =>
               /\ Len(clients') = Len(clients) + 1
               /\ last'.result.success
               /\ last'.session_id \notin DOMAIN PENDING_ACTIONS'
        /\ (Affirm(last'.message) /\ ~Unexpired(last'.session_id)) =>
               /\ clients' = clients
               /\ users' = users
               /\ last'.response = NothingToConfirm
               /\ last'.session_id \notin DOMAIN PENDING_ACTIONS'
        /\ \A sid \in (DOMAIN PENDING_ACTIONS') \ (DOMAIN PENDING_ACTIONS) :
               sid = last'.session_id /\ Staging(last'.message)

\* C3: requests handled one after the other execute a staged action at most
\* once: the affirmation that finds a staged CREATE_USER creates the record
\* and removes the action; an affirmation that finds none changes nothing
\* and answers that there is nothing to confirm; only staging adds an entry.
C3_AtMostOnce == [][C3_Step]_vars

\* an affirmation found nothing to confirm after a creation was executed
C3_Witness ==
    /\ Affirm(last.message)
    /\ IsNone(last.before)
    /\ last.response = NothingToConfirm
    /\ clients # <<>>

\* the request of last' handled on the store without the session's entry
AsIfNotStaged(env) ==
    handle_message([World EXCEPT !.pending = Pop(PENDING_ACTIONS, last'.session_id)],
                   [message |-> last'.message, session_id |-> last'.session_id], env, now)

\* what the request did is what r, the same request with nothing staged, does
SameAs(r) ==
    /\ last'.response = r.response
    /\ clients' = r.w.clients
    /\ users' = r.w.users
    /\ Pop(PENDING_ACTIONS', last'.session_id) = Pop(r.w.pending, last'.session_id)
    /\ last'.session_id \in DOMAIN r.w.pending => PENDING_ACTIONS' = r.w.pending

C4_Step ==
    /\ \A sid \in DOMAIN PENDING_ACTIONS : \A db \in DbModes :
           Expired(sid) => ~execute_pending(World, sid, db, now).result.success
    /\ (ChatStep /\ Expired(last'.session_id)) =>
           /\ clients' = clients
           /\ users' = users
           /\ Affirm(last'.message) =>
                  /\ last'.response = NothingToConfirm
                  /\ last'.session_id \notin DOMAIN PENDING_ACTIONS'
           /\ \E env \in PlainEnvs : SameAs(AsIfNotStaged(env))
           /\ last'.session_id \in DOMAIN PENDING_ACTIONS' =>
                  \/ PENDING_ACTIONS'[last'.session_id] = PENDING_ACTIONS[last'.session_id]
                  \/ Staging(last'.message)

\* C4: once the clock is past the expiry timestamp of a session's action
\* (creation + 5 minutes), execute_pending returns success = false, an
\* affirmation answers that there is nothing to confirm, no request of the
\* session performs the staged mutation, and every request is answered as
\* it would be with nothing staged.
C4_ExpiredIsAbsent == [][C4_Step]_vars

\* an affirmation found an expired action and answered nothing to confirm
C4_Witness ==
    /\ Affirm(last.message)
    /\ ~IsNone(last.before)
    /\ now > last.before.expires_at
    /\ last.response = NothingToConfirm
    /\ last.session_id \notin DOMAIN PENDING_ACTIONS

C5_Step ==
    ChatStep =>
        /\ Deny(last'.message) =>
               /\ PENDING_ACTIONS' = Pop(PENDING_ACTIONS, last'.session_id)
               /\ clients' = clients
               /\ users' = users
               /\ last'.response = Cancelled
               /\ IsNone(last'.result)
               /\ ~Called(last'.calls, "execute_pending")
        /\ (Affirm(last'.message) /\ last'.session_id \notin DOMAIN PENDING_ACTIONS) =>
               /\ last'.response = NothingToConfirm
               /\ clients' = clients
               /\ users' = users

\* C5: a denial removes the session's pending action without executing it,
\* answers "Anulowano." whether or not an action was pending and leaves the
\* storage as it was; an affirmation that then finds no entry answers that
\* there is nothing to confirm.
C5_DenyCancels == [][C5_Step]_vars

\* a denial has just removed a pending action
C5_Witness ==
    /\ Deny(last.message)
    /\ ~IsNone(last.before)
    /\ last.session_id \notin DOMAIN PENDING_ACTIONS
    /\ last.response = Cancelled

C6_Step ==
    (ChatStep /\ (Affirm(last'.message) \/ Deny(last'.message))) =>
        /\ \A c \in {"parse_command", "execute", "set_pending_action",
                     "llm.invoke", "app_graph.invoke"} : ~Called(last'.calls, c)
        /\ \A sid \in DOMAIN PENDING_ACTIONS' :
               sid \in DOMAIN PENDING_ACTIONS /\ PENDING_ACTIONS'[sid] = PENDING_ACTIONS[sid]

\* C6: a message that is an affirmation or a denial is answered without a
\* call of parse_command, of execute, of the plan graph or of the language
\* model, with or without a pending action: it stages nothing.
C6_GateBeforeParser == [][C6_Step]_vars

\* an affirmation has just executed a pending action
C6_Witness ==
    /\ Affirm(last.message)
    /\ ~IsNone(last.before)
    /\ Called(last.calls, "execute_pending")
    /\ last.calls[1] = "is_confirmation"

\* execute_pending for sid leaves the state as it is and fails with a message
FailsUnchanged(r) ==
    /\ ~r.result.success
    /\ r.result.message = "Brak oczekuj@cej akcji do potwierdzenia."
    /\ r.w = World

\* C7: for a session with no entry in the store, among them one for which
\* nothing was ever staged, execute_pending returns success = false with a
\* message and leaves the session store and the storage unchanged.
C7_NothingStaged ==
    \A sid \in SessionIds : \A db \in DbModes :
        sid \notin DOMAIN PENDING_ACTIONS =>
            FailsUnchanged(execute_pending(World, sid, db, now))

\* another session holds an action and a record is stored while "nobody",
\* who never staged anything, has execute_pending fail
C7_Witness ==
    /\ "default" \in DOMAIN PENDING_ACTIONS
    /\ clients # <<>>
    /\ "nobody" \notin DOMAIN PENDING_ACTIONS
    /\ ~execute_pending(World, "nobody", "none", now).result.success

C9_Step ==
    \A b \in (DOMAIN PENDING_ACTIONS) \cup (DOMAIN PENDING_ACTIONS') :
        /\ (~ChatStep \/ b # last'.session_id) =>
               /\ b \in DOMAIN PENDING_ACTIONS
               /\ b \in DOMAIN PENDING_ACTIONS'
               /\ PENDING_ACTIONS'[b] = PENDING_ACTIONS[b]
        /\ (b \in DOMAIN PENDING_ACTIONS /\ b \notin DOMAIN PENDING_ACTIONS') =>
               /\ ChatStep
               /\ b = last'.session_id
               /\ Affirm(last'.message) \/ Deny(last'.message)

\* C9: a request of one session leaves the pending action of every other
\* session as it was, and an entry is removed only by an affirmation or a
\* denial of its own session (the lookup of an affirmation evicts an
\* expired entry).
C9_SessionsIndependent == [][C9_Step]_vars

\* session "anna" has just cancelled her action while "default" holds one
C9_Witness ==
    /\ last.session_id = "anna"
    /\ Deny(last.message)
    /\ ~IsNone(last.before)
    /\ "default" \in DOMAIN PENDING_ACTIONS

\* C10: the response names a command only when the executor's result of the
\* request has success = true.
C10_CommandOnlyOnSuccess ==
    (~IsNone(last.result) /\ ~last.result.success) =>
        ("command" \notin DOMAIN last.response \/ last.response.command = None)

(***************************************************************************)
(* Properties of the command executor, checked on SpecExec.  In a step     *)
(* that calls the executor the clock stands still and last' describes the  *)
(* call; the unprimed variables are the state the call found.              *)
(***************************************************************************)
ReadOnlyCommands == {"LIST_USERS", "LIST_TRAININGS", "SHOW_USER", "HELP"}

\* the step is a call of execute
ExecuteStep == now' = now /\ last'.op = "execute"

\* the step is a call of execute_pending
PendingStep == now' = now /\ last'.op = "execute_pending"

\* some stored client's name contains name, ignoring case
Matches(cs, name) == \E i \in 1..Len(cs) : Contains(Lower(cs[i].name), Lower(name))

\* the name a SHOW_USER or DELETE_USER payload asks for
Asked(payload) == IF "name" \in DOMAIN payload THEN payload.name ELSE ""

\* C11 as stated: execute on a read-only command returns success = true for
\* every payload and every content of the store.
C11_ReadOnlyAlwaysSucceeds ==
    (last.op = "execute" /\ last.command.command \in ReadOnlyCommands) => last.result.success

C11_Step ==
    (ExecuteStep /\ last'.command.command \in ReadOnlyCommands) =>
        /\ last'.result.message # ""
        /\ last'.command.command # "SHOW_USER" => last'.result.success
        /\ last'.command.command = "SHOW_USER" =>
               /\ last'.result.success <=> Matches(clients, Asked(last'.command.payload))
               /\ ~last'.result.success =>
                      last'.result.message =
                          "Nie znaleziono podopiecznego: **" \o Asked(last'.command.payload) \o "**"

\* C11, amended: execute on LIST_USERS, LIST_TRAININGS and HELP returns
\* success = true with a message for every payload and every store, the
\* empty one included; SHOW_USER returns success = true exactly when a stored
\* client's name contains the name asked for, and success = false with a
\* "not found" message otherwise.
C11_ReadOnlySucceedsUnlessNotFound == [][C11_Step]_vars

\* SHOW_USER has just failed to find a name in a store that is not empty
C11_Witness ==
    /\ last.op = "execute"
    /\ last.command.command = "SHOW_USER"
    /\ ~last.result.success
    /\ clients # <<>>

\* C12: when the database session fails during a command, the executor
\* completes the operation on clients.json: a confirmed creation whose
\* db.add raised still succeeds, by add_client.
C12_FallsBackToKeyedStore ==
    (last.op = "execute_pending" /\ last.db = "down" /\ Called(last.calls, "db.add")) =>
        (last.result.success /\ Called(last.calls, "add_client"))

\* C13: with a working database session, a confirmed CREATE_USER, a
\* confirmed DELETE_USER and LIST_USERS act on the users table and leave
\* clients.json alone.
C13_StructuredStoreFirst ==
    (last.db = "up" /\ (last.op = "execute_pending" \/ last.command.command = "LIST_USERS")) =>
        /\ ~Called(last.calls, "add_client")
        /\ ~Called(last.calls, "delete_client_by_name")
        /\ ~Called(last.calls, "load_clients")

(***************************************************************************)
(* Properties of the orchestrator's other paths, checked on Spec.          *)
(***************************************************************************)
C14_Step ==
    (ChatStep /\ Called(last'.calls, "except")) =>
        /\ DOMAIN last'.response = {"response"}
        /\ Called(last'.calls, "app_graph.invoke") =>
               last'.response.response = "B|@d generowania planu: graph failure"
        /\ Called(last'.calls, "llm.invoke") => last'.response.response = "B|@d: llm failure"
        /\ PENDING_ACTIONS' = PENDING_ACTIONS
        /\ clients' = clients
        /\ users' = users

\* C14: when the plan graph or the language model raises, handle_message
\* returns a response whose text carries the exception's description and
\* that has no command key, and the pending actions, clients.json and the
\* users table are as the request found them.
C14_CollaboratorFailureIsAnswered == [][C14_Step]_vars

\* the plan graph has just raised while the session held a pending action
C14_Witness ==
    /\ Called(last.calls, "app_graph.invoke")
    /\ Called(last.calls, "except")
    /\ last.session_id \in DOMAIN PENDING_ACTIONS

\* m is not a confirmation word and parses to CREATE_TRAINING
Training(m) ==
    /\ m \in Messages
    /\ ConfirmationOf[m] = None
    /\ CommandOf[m].command = "CREATE_TRAINING"

\* how many times c was called
Count(calls, c) == Cardinality({i \in 1..Len(calls) : calls[i] = c})

C15_Step ==
    (ChatStep /\ Training(last'.message)) =>
        /\ last'.result = CommandResult(TRUE, "",
                              [use_langgraph |-> TRUE, params |-> CommandOf[last'.message].payload],
                              FALSE)
        /\ PENDING_ACTIONS' = PENDING_ACTIONS
        /\ clients' = clients
        /\ users' = users
        /\ Count(last'.calls, "execute") = 1
        /\ Count(last'.calls, "app_graph.invoke") = 1
        /\ ~Called(last'.calls, "set_pending_action")
        /\ "needs_confirmation" \notin DOMAIN last'.response
        /\ ~Called(last'.calls, "except") =>
               /\ last'.response.command = "CREATE_TRAINING"
               /\ last'.response.data.params.difficulty =
                      Get(CommandOf[last'.message].payload, "difficulty", "medium")
               /\ last'.response.data.params.mode =
                      Get(CommandOf[last'.message].payload, "mode", "circuit")
               /\ last'.response.data.params.num_people =
                      Get(CommandOf[last'.message].payload, "num_people", 1)

\* C15: on CREATE_TRAINING execute changes no store and returns the
\* delegation signal with the parsed parameters; handle_message calls the
\* plan graph once in the same request, stages nothing, and the inputs of
\* the graph are the parsed difficulty, mode and number of people, or
\* medium, circuit and 1 for those the message did not give.
C15_TrainingIsDelegated == [][C15_Step]_vars

\* a plan was generated from a message that gives difficulty, mode and number
\* of people, while the session held a pending action
C15_Witness ==
    /\ Training(last.message)
    /\ DOMAIN CommandOf[last.message].payload = {"difficulty", "mode", "num_people"}
    /\ "command" \in DOMAIN last.response
    /\ last.session_id \in DOMAIN PENDING_ACTIONS

C16_Step ==
    (ExecuteStep /\ last'.command.command \in ReadOnlyCommands) =>
        /\ PENDING_ACTIONS' = PENDING_ACTIONS
        /\ clients' = clients
        /\ users' = users
        /\ ~last'.result.needs_confirmation
        /\ (/\ last.op = "execute"
            /\ last.command.command = "LIST_USERS"
            /\ last'.command.command = "LIST_USERS"
            /\ last'.db = last.db) => last'.result = last.result

\* C16: execute on LIST_USERS, LIST_TRAININGS, SHOW_USER and HELP leaves
\* the pending actions, clients.json and the users table as it found them
\* and returns needs_confirmation = false; a LIST_USERS that follows a
\* LIST_USERS of the same executor returns the same result.
C16_ReadOnlyChangesNothing == [][C16_Step]_vars

\* LIST_USERS has just listed a stored client while an action was pending
C16_Witness ==
    /\ last.op = "execute"
    /\ last.command.command = "LIST_USERS"
    /\ ~IsNone(last.result.data)
    /\ last.result.data.count = Len(clients)
    /\ Len(clients) > 0
    /\ "default" \in DOMAIN PENDING_ACTIONS

\* no pattern of COMMAND_PATTERNS is found in the trimmed message
Unmatched(m) ==
    \A k \in 1..Len(COMMAND_PATTERNS) : ~ReSearch(COMMAND_PATTERNS[k].re, Strip(m), TRUE).found

UnmatchedOf == Tabulate(Unmatched, Messages)

C17_Step ==
    (ChatStep /\ last'.message \in Messages) =>
        /\ (ConfirmationOf[last'.message] = None /\ UnmatchedOf[last'.message]) =>
               /\ CommandOf[last'.message] = ParsedCommand("NONE", EmptyDict, "")
               /\ Count(last'.calls, "llm.invoke") = 1
               /\ ~Called(last'.calls, "execute")
               /\ ~Called(last'.calls, "except") => last'.response = [response |-> "llm answer"]
               /\ PENDING_ACTIONS' = PENDING_ACTIONS
               /\ clients' = clients
               /\ users' = users
        /\ Called(last'.calls, "llm.invoke") =>
               ConfirmationOf[last'.message] = None /\ UnmatchedOf[last'.message]

\* C17: a message that is no confirmation word and in which no pattern is
\* found parses to NONE with an empty payload and an empty raw match;
\* handle_message then calls the language model once and returns its text,
\* and changes no store; the language model is called for no other message.
C17_FallbackOnlyOnNone == [][C17_Step]_vars

\* the language model has just answered a message no pattern matches, in a
\* session that holds a pending action
C17_Witness ==
    /\ last.message \in Messages
    /\ UnmatchedOf[last.message]
    /\ ConfirmationOf[last.message] = None
    /\ last.response = [response |-> "llm answer"]
    /\ last.session_id \in DOMAIN PENDING_ACTIONS

\* the place in cs of the first client whose name contains name, ignoring case
First(cs, name) ==
    CHOOSE i \in 1..Len(cs) :
        /\ Contains(Lower(cs[i].name), Lower(name))
        /\ \A j \in 1..(i - 1) : ~Contains(Lower(cs[j].name), Lower(name))

\* cs without the records that carry the id of cs[i]
Without(cs, i) == SelectSeq(cs, LAMBDA c : c.id # cs[i].id)

C18_Step ==
    /\ (ExecuteStep /\ last'.command.command = "SHOW_USER") =>
           IF Matches(clients, Asked(last'.command.payload))
           THEN /\ last'.result.success
                /\ last'.result.data = clients[First(clients, Asked(last'.command.payload))]
           ELSE /\ ~last'.result.success
                /\ clients' = clients
                /\ users' = users
    /\ (PendingStep /\ Called(last'.calls, "delete_client_by_name")) =>
           IF Matches(clients, Asked(last'.before.payload))
           THEN /\ last'.result.success
                /\ last'.result.message =
                       "Usuni#to podopiecznego **"
                           \o clients[First(clients, Asked(last'.before.payload))].name \o "**"
                /\ clients' = Without(clients, First(clients, Asked(last'.before.payload)))
           ELSE /\ ~last'.result.success
                /\ clients' = clients
                /\ users' = users

\* C18: SHOW_USER and a confirmed DELETE_USER act on the first record of
\* clients.json whose name contains the name asked for, ignoring case:
\* SHOW_USER returns that record, the deletion removes the records with its
\* id and names it in the message; when no name contains the name asked
\* for, both return success = false and change no store.
C18_FirstSubstringMatch == [][C18_Step]_vars

\* a deletion asked for a part, in another case, of the names of two stored
\* clients, and removed the first: the second is the one left
C18_Witness ==
    /\ last.op = "execute_pending"
    /\ Called(last.calls, "delete_client_by_name")
    /\ last.result.success
    /\ last.before.payload.name = "AN"
    /\ last.result.message = "Usuni#to podopiecznego **Joanna**"
    /\ Len(clients) = 1
    /\ clients[1].name = "Jan"

(***************************************************************************)
(* Properties of is_confirmation, checked on SpecWords.                    *)
(***************************************************************************)
\* C19: is_confirmation returns True when the message, lower-cased and
\* trimmed, is a word of the affirmative vocabulary, False when it is a word
\* of the negative vocabulary, and None otherwise, also when the message
\* only contains such a word; no word is in both vocabularies.
C19_WholeMessageVocabulary ==
    /\ AffirmWords \cap DenyWords = {}
    /\ (last.kind \in WholeKinds /\ last.word \in AffirmWords) => last.result = "True"
    /\ (last.kind \in WholeKinds /\ last.word \in DenyWords) => last.result = "False"
    /\ last.kind \in PartKinds => last.result = None
    /\ last.message = "" => last.result = None
    /\ last.result = "True" => Lower(Strip(last.message)) \in AffirmWords
    /\ last.result = "False" => Lower(Strip(last.message)) \in DenyWords

\* a message that ends with an affirmative word after a negative one was
\* classified as neither
C19_Witness ==
    /\ last.kind = "word before"
    /\ last.word = "tak"
    /\ last.message = "no to tak"
    /\ last.result = None

(***************************************************************************)
(* Properties of parse_command, checked on SpecParse.                      *)
(***************************************************************************)
\* the commands of the recognizers, in their fixed order
RecognizerOrder ==
    <<"HELP", "CREATE_USER", "CREATE_USER", "LIST_USERS", "LIST_USERS", "SHOW_USER",
      "DELETE_USER", "CREATE_TRAINING", "CREATE_TRAINING", "LIST_TRAININGS">>

\* the patterns found in the trimmed message
Matching(m) ==
    {k \in 1..Len(COMMAND_PATTERNS) : ReSearch(COMMAND_PATTERNS[k].re, Strip(m), TRUE).found}

\* parsed is what the first of the patterns ks says
Earliest(ks, parsed) ==
    IF ks = {} THEN parsed = ParsedCommand("NONE", EmptyDict, "")
    ELSE /\ parsed.command = RecognizerOrder[CHOOSE k \in ks : \A j \in ks : k <= j]
         /\ parsed.raw_match # ""

\* C20: parse_command returns the command of the first pattern, in the order
\* HELP, CREATE_USER with a keyword, CREATE_USER without, LIST_USERS,
\* LIST_USERS as a bare plural, SHOW_USER, DELETE_USER, CREATE_TRAINING,
\* CREATE_TRAINING for a number, LIST_TRAININGS, that is found in the trimmed
\* message, whatever later patterns are found in it too, and NONE when none
\* is found.
C20_EarliestRecognizerWins ==
    /\ Len(COMMAND_PATTERNS) = Len(RecognizerOrder)
    /\ \A k \in 1..Len(RecognizerOrder) : COMMAND_PATTERNS[k].command = RecognizerOrder[k]
    /\ ~IsNone(last.parsed) => Earliest(Matching(last.message), last.parsed)

\* a message in which the LIST_USERS and the SHOW_USER pattern are found was
\* parsed as LIST_USERS
C20_Witness ==
    /\ last.message = "poka> podopiecznych"
    /\ ~IsNone(last.parsed)
    /\ last.parsed.command = "LIST_USERS"
    /\ Matching(last.message) = {4, 6}

(***************************************************************************)
(* Properties of parse_command when an extractor raises, on SpecRaise.     *)
(***************************************************************************)
\* the patterns found in the trimmed message whose extractor raises
Raising(m) ==
    {k \in Matching(m) :
        Matched(k, ReSearch(COMMAND_PATTERNS[k].re, Strip(m), TRUE), Strip(m)).raised}

\* the patterns found in the trimmed message whose extractor returns
Returning(m) ==
    {k \in 1..Len(COMMAND_PATTERNS) :
        LET match == ReSearch(COMMAND_PATTERNS[k].re, Strip(m), TRUE)
        IN  match.found /\ ~Matched(k, match, Strip(m)).raised}

\* C21: when a pattern is found in the message and its extractor raises,
\* parse_command goes on with the patterns after it: it returns a
\* ParsedCommand, that of the first pattern found whose extractor returns,
\* and NONE when there is no such pattern.
C21_RaisingRecognizerIsSkipped ==
    ~IsNone(last.parsed) =>
        /\ last.parsed.command \in CommandType
        /\ Earliest(Returning(last.message), last.parsed)

\* the extractor of the '<noun> for N' pattern raised on an over-long number
\* and the message was parsed by the LIST_TRAININGS pattern after it
C21_Witness ==
    /\ last.message = "trening dla " \o Ones(MaxStrDigits + 1) \o " lista plan&w"
    /\ ~IsNone(last.parsed)
    /\ Matching(last.message) = {9, 10}
    /\ Raising(last.message) = {9}
    /\ Returning(last.message) = {10}
    /\ last.parsed.command = "LIST_TRAININGS"

\* a create verb followed by a training noun in lower case
LowerCaseTrainingRequests == {"utw&rz trening", "utw&rz plan treningowy"}

\* C22: the CREATE_USER pattern without a keyword is found only when a
\* capitalized name follows the verb, so a message of a create verb and a
\* training noun in lower case is parsed as CREATE_TRAINING, not CREATE_USER.
C22_TrainingNounIsNotAName ==
    (last.message \in LowerCaseTrainingRequests /\ ~IsNone(last.parsed)) =>
        /\ 3 \notin Matching(last.message)
        /\ last.parsed.command = "CREATE_TRAINING"

\* a list, show or history verb followed by a trainings or plans noun
ListTrainingsRequests ==
    {"lista trening&w", "poka> treningi", "poka> plany", "historia plan&w"}

\* C23: a message of a list, show or history verb and a trainings or plans
\* noun is parsed as LIST_TRAININGS with an empty payload.
C23_VerbAndNounListTrainings ==
    (last.message \in ListTrainingsRequests /\ ~IsNone(last.parsed)) =>
        /\ last.parsed.command = "LIST_TRAININGS"
        /\ last.parsed.payload = EmptyDict

\* keyword-form create messages 'dodaj podopiecznego <name>, <N> lat, <W>kg,
\* cel: <goal>' with each part there or not, and the payload they stand for:
\* the name, the age as an integer, the weight as a decimal (whole part and
\* fraction digits), the goals
CreateForms ==
    {
     [text |-> "dodaj podopiecznego Jan, 30 lat, 80,5kg, cel: masa",
      payload |-> [name |-> "Jan", age |-> 30, weight |-> [whole |-> 80, frac |-> "5"], goals |-> "masa"]],
     [text |-> "dodaj podopiecznego Jan, 30 lat, 80,5kg",
      payload |-> [name |-> "Jan", age |-> 30, weight |-> [whole |-> 80, frac |-> "5"]]],
     [text |-> "dodaj podopiecznego Jan, 30 lat, cel: masa",
      payload |-> [name |-> "Jan", age |-> 30, goals |-> "masa"]],
     [text |-> "dodaj podopiecznego Jan, 30 lat",
      payload |-> [name |-> "Jan", age |-> 30]],
     [text |-> "dodaj podopiecznego Jan, 80,5kg, cel: masa",
      payload |-> [name |-> "Jan", weight |-> [whole |-> 80, frac |-> "5"], goals |-> "masa"]],
     [text |-> "dodaj podopiecznego Jan, 80,5kg",
      payload |-> [name |-> "Jan", weight |-> [whole |-> 80, frac |-> "5"]]],
     [text |-> "dodaj podopiecznego Jan, cel: masa",
      payload |-> [name |-> "Jan", goals |-> "masa"]],
     [text |-> "dodaj podopiecznego Jan",
      payload |-> [name |-> "Jan"]],
     [text |-> "dodaj podopiecznego 30 lat, 80,5kg, cel: masa",
      payload |-> [age |-> 30, weight |-> [whole |-> 80, frac |-> "5"], goals |-> "masa"]],
     [text |-> "dodaj podopiecznego 30 lat, 80,5kg",
      payload |-> [age |-> 30, weight |-> [whole |-> 80, frac |-> "5"]]],
     [text |-> "dodaj podopiecznego 30 lat, cel: masa",
      payload |-> [age |-> 30, goals |-> "masa"]],
     [text |-> "dodaj podopiecznego 30 lat",
      payload |-> [age |-> 30]],
     [text |-> "dodaj podopiecznego 80,5kg, cel: masa",
      payload |-> [weight |-> [whole |-> 80, frac |-> "5"], goals |-> "masa"]],
     [text |-> "dodaj podopiecznego 80,5kg",
      payload |-> [weight |-> [whole |-> 80, frac |-> "5"]]],
     [text |-> "dodaj podopiecznego cel: masa",
      payload |-> [goals |-> "masa"]],
     [text |-> "dodaj podopiecznego Jan Kowalski, 30 lat, 80kg, cel: schudn@^",
      payload |-> [name |-> "Jan Kowalski", age |-> 30, weight |-> [whole |-> 80, frac |-> ""], goals |-> "schudn@^"]],
     [text |-> "dodaj podopiecznego Ola, 7 lat, 42.25kg",
      payload |-> [name |-> "Ola", age |-> 7, weight |-> [whole |-> 42, frac |-> "25"]]]
    }

\* C24: a keyword-form create message is parsed as CREATE_USER with the
\* payload of its parts: name, the leading letters; age, an integer; weight,
\* a decimal whose comma is read as a dot; goals.  A key is in the payload
\* exactly when its part is in the message.
C24_KeywordCreatePayload ==
    \A f \in CreateForms :
        (last.message = f.text /\ ~IsNone(last.parsed)) =>
            /\ last.parsed.command = "CREATE_USER"
            /\ last.parsed.payload = f.payload

\* a message with all four parts and a comma in the weight was parsed
C24_Witness ==
    /\ last.message = "dodaj podopiecznego Jan, 30 lat, 80,5kg, cel: masa"
    /\ ~IsNone(last.parsed)
    /\ DOMAIN last.parsed.payload = {"name", "age", "weight", "goals"}
    /\ last.parsed.payload.weight = [whole |-> 80, frac |-> "5"]

(***************************************************************************)
(* Properties of execute_pending under concurrent requests, on SpecConc.   *)
(***************************************************************************)
\* thread t removes the session's entry: it is the action t goes on to
\* execute; thread t answers: the command named is the one it executed
C25_Step ==
    \A t \in Threads :
        /\ (pc[t] = "clear" /\ pc'[t] = "dispatch") =>
              Get(PENDING_ACTIONS, "default", NoneRec) \in {NoneRec, loc[t].action}
        /\ (pc[t] = "dispatch" /\ pc'[t] = "idle") =>
              resp'[t].command = loc[t].action.command

NothingToExecute(db) ==
    /\ ~execute_pending(World, "default", db, now).result.success
    /\ execute_pending(World, "default", db, now).w = World

\* C26: when execute_pending has returned, whether the operation succeeded
\* or failed, the session holds no action: it was removed once, before the
\* dispatch, and execute_pending called again fails and changes nothing.
C26_NothingRemains ==
    last.op = "execute_pending" =>
        /\ "default" \notin DOMAIN PENDING_ACTIONS
        /\ Len(last.calls) > 1 =>
              /\ last.calls[2] = "clear_pending_action"
              /\ Count(last.calls, "clear_pending_action") = 1
        /\ \A db \in DbModes : NothingToExecute(db)

\* a staged CREATE_USER was confirmed while the database was down: the
\* creation failed and the action is gone
C26_Witness ==
    /\ last.op = "execute_pending"
    /\ last.db = "down"
    /\ ~IsNone(last.before)
    /\ last.before.command = "CREATE_USER"
    /\ Len(last.calls) > 1
    /\ ~last.result.success
    /\ PENDING_ACTIONS = EmptyDict

\* the record add_client stored carries the staged payload: its name, age,
\* weight and goals, or the defaults of _do_create_user
Carries(c, payload) ==
    /\ c.name = Get(payload, "name", "Nieznany")
    /\ c.age = Get(payload, "age", 0)
    /\ c.weight = Get(payload, "weight", [int |-> 0])
    /\ c.goal = Get(payload, "goals", "")

\* the row added to the users table carries the staged payload
RowCarries(row, payload) ==
    /\ row.name = Get(payload, "name", "Nieznany")
    /\ row.age = Nullable(payload, "age")
    /\ row.weight = Nullable(payload, "weight")
    /\ row.goals = Nullable(payload, "goals")

\* one entity carrying payload was added to one store, and nothing else changed
CreatedOne(payload) ==
    \/ /\ users' = users
       /\ Len(clients') = Len(clients) + 1
       /\ SubSeq(clients', 1, Len(clients)) = clients
       /\ Carries(clients'[Len(clients')], payload)
    \/ /\ clients' = clients
       /\ Len(users') = Len(users) + 1
       /\ SubSeq(users', 1, Len(users)) = users
       /\ RowCarries(users'[Len(users')], payload)

\* the first client whose name contains name was deleted, if there is one,
\* and nothing else changed
DeletedByName(name) ==
    /\ users' = users
    /\ IF Matches(clients, name)
       THEN clients' = Without(clients, First(clients, name))
       ELSE clients' = clients

C27_Step ==
    (PendingStep /\ ~IsNone(last'.before) /\ Len(last'.calls) > 1) =>
        /\ PENDING_ACTIONS' = EmptyDict
        /\ last'.before.command = "CREATE_USER" =>
              IF last'.result.success THEN CreatedOne(last'.before.payload)
              ELSE clients' = clients /\ users' = users
        /\ last'.before.command = "DELETE_USER" =>
              DeletedByName(Asked(last'.before.payload))

\* C27: execute_pending performs the operation the stored tag names on the
\* stored payload: a pending CREATE_USER that succeeds adds one entity with
\* the staged name, age, weight and goals, a pending DELETE_USER deletes by
\* the staged name, and nothing else is changed in the step.
C27_StoredTagAndPayload == [][C27_Step]_vars

\* a CREATE_USER staged with name, age, weight and goals was confirmed and
\* the record it added is the last one of the store
C27_Witness ==
    /\ last.op = "execute_pending"
    /\ ~IsNone(last.before)
    /\ last.before.command = "CREATE_USER"
    /\ DOMAIN last.before.payload = {"name", "age", "weight", "goals"}
    /\ last.result.success
    /\ clients # <<>>
    /\ Carries(clients[Len(clients)], last.before.payload)
    /\ clients[Len(clients)].goal = "masa"

(***************************************************************************)
(* Properties of get_pending_action, on Spec.                              *)
(***************************************************************************)
\* get_pending_action called now for session sid: up to the expiry timestamp
\* it returns the stored action and the store as it is, later it returns
\* None and the store without the session's entry
ReadsUntilExpiry(sid) ==
    IF now <= PENDING_ACTIONS[sid].expires_at
    THEN /\ get_pending_action(PENDING_ACTIONS, sid, now).action = PENDING_ACTIONS[sid]
         /\ get_pending_action(PENDING_ACTIONS, sid, now).store = PENDING_ACTIONS
    ELSE /\ IsNone(get_pending_action(PENDING_ACTIONS, sid, now).action)
         /\ get_pending_action(PENDING_ACTIONS, sid, now).store =
                [s \in (DOMAIN PENDING_ACTIONS) \ {sid} |-> PENDING_ACTIONS[s]]

C28_Step ==
    /\ \A sid \in DOMAIN PENDING_ACTIONS :
           /\ PENDING_ACTIONS[sid].expires_at = PENDING_ACTIONS[sid].created_at + 5
           /\ ReadsUntilExpiry(sid)
    /\ (ChatStep /\ Affirm(last'.message) /\ ~IsNone(last'.before)) =>
           /\ last'.session_id \notin DOMAIN PENDING_ACTIONS'
           /\ (now <= last'.before.expires_at) = (last'.response # NothingToConfirm)

\* C28: the expiry timestamp of a stored action is its creation time + 5
\* minutes; while the clock is not later, get_pending_action returns the
\* action and leaves the store as it is, and an affirmation finds it; once
\* the clock is later, get_pending_action removes the session's entry and
\* returns None, and an affirmation finds nothing.
C28_ReadUntilExpiry == [][C28_Step]_vars

\* an affirmation arrived at the expiry timestamp of the action and found it
C28_Witness ==
    /\ Affirm(last.message)
    /\ ~IsNone(last.before)
    /\ now = last.before.expires_at
    /\ last.response # NothingToConfirm
    /\ ~IsNone(last.result)
    /\ last.session_id \notin DOMAIN PENDING_ACTIONS

(***************************************************************************)
(* Properties of the messages between staging and confirmation, on Spec.   *)
(***************************************************************************)
\* m is neither a confirmation word nor a command that is staged: a
\* read-only command, a training request or a message for the fallback chat
Intervening(m) == m \in Messages /\ ~Affirm(m) /\ ~Deny(m) /\ ~Staging(m)

\* what execute_pending does with the action of session sid
StagedMutation(sid) ==
    DispatchPending([World EXCEPT !.pending = Pop(PENDING_ACTIONS, sid)],
                    PENDING_ACTIONS[sid], "none", now)

C29_Step ==
    ChatStep =>
        /\ Intervening(last'.message) =>
               /\ PENDING_ACTIONS' = PENDING_ACTIONS
               /\ clients' = clients
               /\ users' = users
        /\ (Affirm(last'.message) /\ Unexpired(last'.session_id)) =>
               /\ last'.result = StagedMutation(last'.session_id).result
               /\ clients' = StagedMutation(last'.session_id).w.clients
               /\ users' = StagedMutation(last'.session_id).w.users
               /\ PENDING_ACTIONS' = Pop(PENDING_ACTIONS, last'.session_id)

\* C29: a message that is neither a confirmation word nor a mutating command
\* (a read-only command, a training request, a message for the fallback
\* chat) leaves every staged action in place, so an affirmation that arrives
\* after any number of them, before the action expires, executes the staged
\* mutation.
C29_StaysAcrossOtherMessages == [][C29_Step]_vars

\* a training request was handled for a session that holds a staged action,
\* and the action is still there, unexpired
C29_Witness ==
    /\ Intervening(last.message)
    /\ CommandOf[last.message].command = "CREATE_TRAINING"
    /\ ~IsNone(last.before)
    /\ Unexpired(last.session_id)
    /\ PENDING_ACTIONS[last.session_id] = last.before

(***************************************************************************)
(* Properties of the deletion on the keyed-record store, on SpecExec.      *)
(***************************************************************************)
\* cs without its record at place i
RemoveAt(cs, i) == SubSeq(cs, 1, i - 1) \o SubSeq(cs, i + 1, Len(cs))

C30_Step ==
    (/\ PendingStep
     /\ Called(last'.calls, "delete_client_by_name")
     /\ Matches(clients, Asked(last'.before.payload))) =>
        clients' = RemoveAt(clients, First(clients, Asked(last'.before.payload)))

\* C30: a confirmed DELETE_USER removes one record of the keyed-record
\* store, the first whose name matches, and leaves every other record as it
\* is, whatever the store holds, records created one right after the other
\* included.
C30_DeletesExactlyOne == [][C30_Step]_vars

====
